---- MODULE Spec2Model ----
(***************************************************************************)
(* git-ai-cli: layered configuration resolution (utils/config.rs), the     *)
(* generation client's reply handling (utils/ai.rs) and the interactive    *)
(* commit command (commands/commit.rs).                                    *)
(*                                                                         *)
(* Text is a sequence of one-character strings.  Option<T> is a sequence   *)
(* of length at most one: <<>> is None, <<v>> is Some(v).                  *)
(***************************************************************************)
EXTENDS Integers, Sequences, FiniteSets, TLC

VARIABLES
    globalFile,        \* the per-user config.json: [state, json]
    localFile,         \* the per-project .git-ai.json, likewise
    env,               \* the process environment: variable name -> Option<String>
    config,            \* Result<AIConfig> of get_merged_config: [ok, err, value]
    yes,               \* commit::run argument: auto-commit without prompting
    num,               \* commit::run argument: number of messages asked for
    locale_override,   \* commit::run argument: Option<String>
    agent,             \* commit::run argument: run the agent-lite analysis
    copilot,           \* commit::run argument: run the Copilot CLI impact analysis
    impact,            \* commit::run: how the impact analysis ended, until it is reported
    staged_files,      \* commit::run local
    staging,           \* run: what lines 17-52 had read when the run returned from there
    staged_diff,       \* run local diff: Option, the staged diff once it is read
    pc,                \* position in commit::run
    system_prompt,     \* commit::run local
    user_prompt,       \* commit::run local
    current_messages,  \* commit::run local: the candidate set of the review loop
    selection,         \* commit::run local: the option chosen in this iteration of the loop
    result,            \* what commit::run returned: "none" while running
    genLog,            \* every generation call issued: the request and the kind of reply
    commitLog,         \* every GitManager::commit invocation: the message and how git ended
    regens,            \* number of times Regenerate was selected
    prompts,           \* number of times the option prompt was shown
    editorLog,         \* every editor session: the seed, how it ended, the text it left
    command,           \* the subcommand that runs: "commit" or "msg"
    json_output,       \* msg::run argument: print the result as JSON
    quiet,             \* msg::run argument: print the messages alone
    truncated_diff,    \* run local: the diff that goes into the prompt
    truncated,         \* run local: whether the diff was cut
    output,            \* what msg::run printed
    hook_file,         \* the file at hook_path: Option, its content
    backup_file,       \* the file at hook_path + ".original": Option, its content
    hookLog,           \* every run of hook install or remove: the files before it, how it ended
    callee,            \* a function applied on its own: its name
    callArg,           \* the argument of its latest application
    callRet,           \* what that application returned
    callCount          \* how many times it was applied

cfgVars == <<globalFile, localFile, env, config>>
callVars == <<callee, callArg, callRet, callCount>>
args == <<yes, num, locale_override, agent, copilot>>
msgArgs == <<command, json_output, quiet>>
diffVars == <<staged_diff, truncated_diff, truncated>>
hookVars == <<hook_file, backup_file, hookLog>>
runVars == <<args, staged_files, pc, system_prompt, user_prompt, current_messages,
             selection, result, genLog, commitLog, regens, prompts, editorLog,
             msgArgs, diffVars, output, impact, staging, hookVars>>
vars == <<globalFile, localFile, env, config, args, staged_files, pc, system_prompt,
          user_prompt, current_messages, selection, result, genLog, commitLog, regens,
          prompts, editorLog, msgArgs, diffVars, output, impact, staging, hookVars, callVars>>

----------------------------------------------------------------------------
(* Bounds of the model *)

\* longest text the editor leaves in the temporary file
MaxEditLen == 2
\* largest --num
MaxNum == 2
\* most Regenerate selections followed in one run
MaxRegens == 2
\* longest staged diff handed to the truncation on its own, in characters
MaxDiffLen == 3
\* the longest response of the impact analyzer, in lines
MaxLines == 4
\* most runs of hook install and hook remove in a row
MaxHookRuns == 3

----------------------------------------------------------------------------
(* Option<T> *)

None == <<>>
Some(v) == <<v>>
is_some(o) == Len(o) = 1
unwrap(o) == o[1]

\* A JSON key that the object does not hold
Absent == "<absent>"

\* nothing was printed
NoOutput ==
    [format |-> "none",
     json |-> [messages |-> <<>>, staged_files |-> <<>>, truncated |-> FALSE,
               ignored_files |-> <<>>],
     lines |-> <<>>]

\* the commit subcommand runs: the arguments of msg play no part
CommitCommand ==
    command = "commit" /\ json_output = FALSE /\ quiet = FALSE /\ output = NoOutput

\* the diff is not read yet
NoDiff == staged_diff = None /\ truncated_diff = <<>> /\ truncated = FALSE

\* the hook commands play no part: no file at either path
NoHook == hook_file = None /\ backup_file = None /\ hookLog = <<>>

\* nothing of lines 17-52 is held: before they run, and after line 58
NoStaging == [staged_files |-> None, unstaged_files |-> None, selections |-> None,
              restaged |-> None]

\* no function is applied on its own
NoCall == callee = "none" /\ callArg = <<>> /\ callRet = <<>> /\ callCount = 0

----------------------------------------------------------------------------
(* types.rs: AIConfig *)

\* impl Default for AIConfig
AIConfigDefault ==
    [provider |-> "", api_key |-> "", base_url |-> "", model |-> "",
     agent_model |-> None, locale |-> "en", custom_prompt |-> None,
     enable_footer |-> Some(TRUE)]

\* #[serde(default)] on a String field: String::default() when the key is absent
SerdeString(v) == IF v = Absent THEN "" ELSE v

\* #[serde(default)] on an Option field: None when the key is absent
SerdeOption(v) == IF v = Absent THEN None ELSE Some(v)

\* the same for Option<bool>: the JSON tokens true and false
SerdeOptionBool(v) == IF v = Absent THEN None ELSE Some(v = "true")

\* serde_json::from_str::<AIConfig> of a well-formed object
ParseAIConfig(json) ==
    [provider      |-> SerdeString(json.provider),
     api_key       |-> SerdeString(json.api_key),
     base_url      |-> SerdeString(json.base_url),
     model         |-> SerdeString(json.model),
     agent_model   |-> SerdeOption(json.agent_model),
     locale        |-> SerdeString(json.locale),
     custom_prompt |-> SerdeOption(json.custom_prompt),
     enable_footer |-> SerdeOptionBool(json.enable_footer)]

Ok(v) == [ok |-> TRUE, err |-> "none", value |-> v]
Err(kind) == [ok |-> FALSE, err |-> kind, value |-> AIConfigDefault]

----------------------------------------------------------------------------
(* utils/config.rs: ConfigManager *)

\* read_global_config and read_local_config: the same code on two paths
ReadFileConfig(file) ==
    IF file.state = "missing" THEN Ok(AIConfigDefault)
    ELSE IF file.state = "malformed" THEN Err("Config")
    ELSE Ok(ParseAIConfig(file.json))

read_global_config == ReadFileConfig(globalFile)
read_local_config == ReadFileConfig(localFile)

\* std::env::var(name)
EnvVar(name) == env[name]

Truthy == {"1", "true", "yes", "on"}

\* read_env_config
read_env_config ==
    LET provider ==
            IF is_some(EnvVar("GIT_AI_PROVIDER")) THEN unwrap(EnvVar("GIT_AI_PROVIDER"))
            ELSE IF is_some(EnvVar("OCO_AI_PROVIDER")) THEN unwrap(EnvVar("OCO_AI_PROVIDER"))
            ELSE AIConfigDefault.provider
        api_key ==
            IF is_some(EnvVar("GIT_AI_API_KEY")) THEN unwrap(EnvVar("GIT_AI_API_KEY"))
            ELSE IF is_some(EnvVar("OPENAI_API_KEY")) THEN unwrap(EnvVar("OPENAI_API_KEY"))
            ELSE IF is_some(EnvVar("DEEPSEEK_API_KEY")) THEN unwrap(EnvVar("DEEPSEEK_API_KEY"))
            ELSE AIConfigDefault.api_key
        base_url ==
            IF is_some(EnvVar("GIT_AI_BASE_URL")) THEN unwrap(EnvVar("GIT_AI_BASE_URL"))
            ELSE AIConfigDefault.base_url
        model ==
            IF is_some(EnvVar("GIT_AI_MODEL")) THEN unwrap(EnvVar("GIT_AI_MODEL"))
            ELSE AIConfigDefault.model
        agent_model ==
            IF is_some(EnvVar("GIT_AI_AGENT_MODEL")) THEN Some(unwrap(EnvVar("GIT_AI_AGENT_MODEL")))
            ELSE AIConfigDefault.agent_model
        locale ==
            IF is_some(EnvVar("GIT_AI_LOCALE")) THEN unwrap(EnvVar("GIT_AI_LOCALE"))
            ELSE AIConfigDefault.locale
        custom_prompt ==
            IF is_some(EnvVar("GIT_AI_CUSTOM_PROMPT")) THEN Some(unwrap(EnvVar("GIT_AI_CUSTOM_PROMPT")))
            ELSE AIConfigDefault.custom_prompt
        enable_footer ==
            IF is_some(EnvVar("GIT_AI_ENABLE_FOOTER"))
            THEN Some(unwrap(EnvVar("GIT_AI_ENABLE_FOOTER")) \in Truthy)
            ELSE AIConfigDefault.enable_footer
    IN  [provider |-> provider, api_key |-> api_key, base_url |-> base_url,
         model |-> model, agent_model |-> agent_model, locale |-> locale,
         custom_prompt |-> custom_prompt, enable_footer |-> enable_footer]

\* the overlay of one string field: if !x.f.is_empty() { merged.f = x.f }
OverlayStringAlways(acc, incoming) == incoming
OverlayString(acc, incoming) == IF incoming # "" THEN incoming ELSE acc

\* the overlay of one optional field: if x.f.is_some() { merged.f = x.f }
OverlayOption(acc, incoming) == IF is_some(incoming) THEN incoming ELSE acc

\* the overlay of locale: if !x.locale.is_empty() && x.locale != "en" { ... }
OverlayLocaleNonEmpty(acc, incoming) == IF incoming # "" THEN incoming ELSE acc
OverlayLocale(acc, incoming) ==
    IF incoming # "" /\ incoming # "en" THEN incoming ELSE acc

\* one "Merge ... config" block of get_merged_config
Overlay(merged, x) ==
    [provider      |-> OverlayString(merged.provider, x.provider),
     api_key       |-> OverlayString(merged.api_key, x.api_key),
     base_url      |-> OverlayString(merged.base_url, x.base_url),
     model         |-> OverlayString(merged.model, x.model),
     agent_model   |-> OverlayOption(merged.agent_model, x.agent_model),
     locale        |-> OverlayLocale(merged.locale, x.locale),
     custom_prompt |-> OverlayOption(merged.custom_prompt, x.custom_prompt),
     enable_footer |-> OverlayOption(merged.enable_footer, x.enable_footer)]

\* get_merged_config
get_merged_config ==
    IF ~read_global_config.ok THEN read_global_config
    ELSE IF ~read_local_config.ok THEN read_local_config
    ELSE Ok(Overlay(Overlay(read_global_config.value, read_local_config.value),
                    read_env_config))

----------------------------------------------------------------------------
(* The configuration sources that the configuration specification explores *)

EnvNames ==
    {"GIT_AI_PROVIDER", "OCO_AI_PROVIDER", "GIT_AI_API_KEY", "OPENAI_API_KEY",
     "DEEPSEEK_API_KEY", "GIT_AI_BASE_URL", "GIT_AI_MODEL", "GIT_AI_AGENT_MODEL",
     "GIT_AI_LOCALE", "GIT_AI_CUSTOM_PROMPT", "GIT_AI_ENABLE_FOOTER"}

EmptyEnv == [n \in EnvNames |-> None]

EmptyJson ==
    [provider |-> Absent, api_key |-> Absent, base_url |-> Absent, model |-> Absent,
     agent_model |-> Absent, locale |-> Absent, custom_prompt |-> Absent,
     enable_footer |-> Absent]

\* a configuration file: not there, not a JSON object of the expected shape, or an object
MissingFile == [state |-> "missing", json |-> EmptyJson]
MalformedFile == [state |-> "malformed", json |-> EmptyJson]
File(json) == [state |-> "present", json |-> json]

\* values that tell the layers apart
GlobalVal ==
    [provider |-> "deepseek", api_key |-> "key-global", base_url |-> "https://global",
     model |-> "model-global", agent_model |-> "agent-global", locale |-> "zh",
     custom_prompt |-> "prompt-global"]
LocalVal ==
    [provider |-> "openai", api_key |-> "key-local", base_url |-> "https://local",
     model |-> "model-local", agent_model |-> "agent-local", locale |-> "ja",
     custom_prompt |-> "prompt-local"]
EnvVal ==
    [provider |-> "ollama", api_key |-> "key-env", base_url |-> "https://env",
     model |-> "model-env", agent_model |-> "agent-env", locale |-> "fr",
     custom_prompt |-> "prompt-env"]

\* files that set any of the four required string fields
StringFiles(val) ==
    {File([EmptyJson EXCEPT !.provider = p, !.api_key = k, !.base_url = b, !.model = m]) :
        p \in {Absent, val.provider}, k \in {Absent, val.api_key},
        b \in {Absent, val.base_url}, m \in {Absent, val.model}}

\* files that set any of the optional fields and the locale
OptionFiles(val) ==
    {File([EmptyJson EXCEPT !.agent_model = a, !.locale = l, !.custom_prompt = c,
                            !.enable_footer = f]) :
        a \in {Absent, val.agent_model}, l \in {Absent, "en", val.locale},
        c \in {Absent, val.custom_prompt}, f \in {Absent, "true", "false"}}

\* environments that define any of the variables of the string fields
StringEnvs ==
    {[EmptyEnv EXCEPT !["GIT_AI_PROVIDER"] = p1, !["OCO_AI_PROVIDER"] = p2,
                      !["GIT_AI_API_KEY"] = k1, !["OPENAI_API_KEY"] = k2,
                      !["DEEPSEEK_API_KEY"] = k3, !["GIT_AI_BASE_URL"] = b,
                      !["GIT_AI_MODEL"] = m] :
        p1 \in {None, Some(EnvVal.provider)}, p2 \in {None, Some("lm-studio")},
        k1 \in {None, Some(EnvVal.api_key)}, k2 \in {None, Some("key-openai")},
        k3 \in {None, Some("key-deepseek")}, b \in {None, Some(EnvVal.base_url)},
        m \in {None, Some(EnvVal.model)}}

\* environments that define any of the variables of the optional fields
OptionEnvs ==
    {[EmptyEnv EXCEPT !["GIT_AI_AGENT_MODEL"] = a, !["GIT_AI_LOCALE"] = l,
                      !["GIT_AI_CUSTOM_PROMPT"] = c, !["GIT_AI_ENABLE_FOOTER"] = f] :
        a \in {None, Some(EnvVal.agent_model)},
        l \in {None, Some("en"), Some(EnvVal.locale)},
        c \in {None, Some(EnvVal.custom_prompt)},
        f \in {None, Some("true"), Some("0")}}

----------------------------------------------------------------------------
(* Text *)

Whitespace == {" ", "\n"}

\* the texts the editor may leave behind: every text of at most n characters
EditAlphabet == {"e", " "}
EditTexts(n) == UNION {[1..k -> EditAlphabet] : k \in 0..n}

\* the reply texts of the remote API that the runs explore
ReplyTexts ==
    { <<>>,
      <<" ">>,
      <<"-", "-", "-">>,
      <<" ", "-", "-", "-", "\n">>,
      <<"a">>,
      <<" ", "a", "\n">>,
      <<"a", "-", "-", "-">>,
      <<"-", "-", "-", " ", "b">>,
      <<"a", "-", "-", "-", "b">>,
      <<"b", "\n", "-", "-", "-", "\n", "a", "-", "-", "-", "c">>,
      <<"a", "-", "-", "-", " ", "-", "-", "-", "b">> }

Delimiter == <<"-", "-", "-">>

\* whether the delimiter starts at index i of t
DelimiterAt(t, i) ==
    /\ i + Len(Delimiter) - 1 <= Len(t)
    /\ SubSeq(t, i, i + Len(Delimiter) - 1) = Delimiter

\* the index of the leftmost delimiter of t, or 0
FindDelimiter(t) ==
    IF \E i \in 1..Len(t) : DelimiterAt(t, i)
    THEN CHOOSE i \in 1..Len(t) :
            DelimiterAt(t, i) /\ \A j \in 1..(i - 1) : ~DelimiterAt(t, j)
    ELSE 0

\* str::split("---"): the pieces between the non-overlapping delimiters, left to right
RECURSIVE Split(_)
Split(t) ==
    LET i == FindDelimiter(t)
    IN  IF i = 0 THEN <<t>>
        ELSE <<SubSeq(t, 1, i - 1)>> \o Split(SubSeq(t, i + Len(Delimiter), Len(t)))

\* str::trim_start and str::trim_end
RECURSIVE TrimStart(_)
TrimStart(t) ==
    IF t # <<>> /\ Head(t) \in Whitespace THEN TrimStart(Tail(t)) ELSE t

RECURSIVE TrimEnd(_)
TrimEnd(t) ==
    IF t # <<>> /\ t[Len(t)] \in Whitespace THEN TrimEnd(SubSeq(t, 1, Len(t) - 1)) ELSE t

\* str::trim
Trim(t) == TrimEnd(TrimStart(t))

\* iter.map(f).collect()
RECURSIVE MapTrim(_)
MapTrim(ss) == IF ss = <<>> THEN <<>> ELSE <<Trim(Head(ss))>> \o MapTrim(Tail(ss))

NonEmptyText(t) == t # <<>>

\* the request that generate_commit_message sends (temperature in tenths)
SingleRequest(system, user) ==
    [system |-> system, user |-> user, count |-> 1, temperature |-> 7, max_tokens |-> 500]

\* the request that generate_multiple_messages sends
MultiRequest(system, user, count) ==
    [system |-> system,
     user |-> user \o <<"Generate count different commit messages separated by '---'.">>,
     count |-> count, temperature |-> 8, max_tokens |-> 1000]

\* PromptTemplates::get_system_prompt
get_system_prompt_template_only(locale, provider, custom_prompt) ==
    IF locale = "zh"
    THEN (IF provider = "deepseek" THEN "chinese_prompt_deepseek" ELSE "chinese_prompt")
    ELSE (IF provider = "deepseek" THEN "english_prompt_deepseek" ELSE "english_prompt")
get_system_prompt(locale, provider, custom_prompt) ==
    IF is_some(custom_prompt) THEN unwrap(custom_prompt)
    ELSE IF locale = "zh"
         THEN (IF provider = "deepseek" THEN "chinese_prompt_deepseek" ELSE "chinese_prompt")
         ELSE (IF provider = "deepseek" THEN "english_prompt_deepseek" ELSE "english_prompt")

\* PromptTemplates::get_user_prompt: the pieces the prompt is made of, in order
get_user_prompt(diff, branch_name, recent_commits) ==
    <<"Generate a commit message for the following changes:", diff>>
    \o (IF is_some(branch_name) THEN <<"Branch:", unwrap(branch_name)>> ELSE <<>>)
    \o (IF is_some(recent_commits) /\ unwrap(recent_commits) # <<>>
        THEN <<"Recent commits:">> \o SubSeq(unwrap(recent_commits), 1,
                                            IF Len(unwrap(recent_commits)) < 5
                                            THEN Len(unwrap(recent_commits)) ELSE 5)
        ELSE <<>>)

----------------------------------------------------------------------------
(* utils/ai.rs: AIClient::redact_secrets *)

Lower ==
    {"a", "b", "c", "d", "e", "f", "g", "h", "i", "j", "k", "l", "m", "n",
     "o", "p", "q", "r", "s", "t", "u", "v", "w", "x", "y", "z"}
Upper ==
    {"A", "B", "C", "D", "E", "F", "G", "H", "I", "J", "K", "L", "M", "N",
     "O", "P", "Q", "R", "S", "T", "U", "V", "W", "X", "Y", "Z"}
Digits == {"0", "1", "2", "3", "4", "5", "6", "7", "8", "9"}

\* [a-zA-Z0-9]
Alnum == Lower \cup Upper \cup Digits
\* [a-zA-Z0-9_-]
TokenChars == Alnum \cup {"_", "-"}
\* \s
RegexSpace == {" ", "\t", "\n"}

\* the repetition bounds {20,}, {20,} and {24,}, the characters kept at each
\* end of a long token, and the length up to which a token is masked whole
SkMin == 20
BearerMin == 20
LongMin == 24
KeepLen == 3
FullMaskMax == 6

\* the greedy match of class* at index i of t: the length of the run
RunLen(t, i, class) ==
    IF i > Len(t) THEN 0
    ELSE CHOOSE n \in 0..(Len(t) - i + 1) :
            /\ \A k \in i..(i + n - 1) : t[k] \in class
            /\ i + n <= Len(t) => t[i + n] \notin class

\* whether the literal p stands at index i of t
LiteralAt(t, i, p) ==
    i + Len(p) - 1 <= Len(t) /\ SubSeq(t, i, i + Len(p) - 1) = p

SkPrefix == <<"s", "k", "-">>
SkReplacement == <<"s", "k", "-", "*", "*", "*", "*", ".", ".", ".">>
BearerWord == <<"B", "e", "a", "r", "e", "r">>
BearerReplacement == <<"B", "e", "a", "r", "e", "r", " ", "*", "*", "*", "*", ".", ".", ".">>
Mask == <<"*", "*", "*", "*">>

\* the length of the match of sk-[a-zA-Z0-9]{20,} at index i, or 0
SkMatchLen(t, i) ==
    IF LiteralAt(t, i, SkPrefix) /\ RunLen(t, i + Len(SkPrefix), Alnum) >= SkMin
    THEN Len(SkPrefix) + RunLen(t, i + Len(SkPrefix), Alnum)
    ELSE 0

\* the start of the leftmost match of the first pattern from index i, or 0
NextSk(t, i) ==
    IF \E j \in i..Len(t) : SkMatchLen(t, j) > 0
    THEN CHOOSE j \in i..Len(t) :
            SkMatchLen(t, j) > 0 /\ \A k \in i..(j - 1) : SkMatchLen(t, k) = 0
    ELSE 0

\* replace_all of the first pattern, scanning from index i
RECURSIVE ReplaceSk(_, _)
ReplaceSk(t, i) ==
    LET j == NextSk(t, i)
    IN  IF j = 0 THEN SubSeq(t, i, Len(t))
        ELSE SubSeq(t, i, j - 1) \o SkReplacement
                \o ReplaceSk(t, j + SkMatchLen(t, j))

\* the length of the match of Bearer\s+[a-zA-Z0-9_-]{20,} at index i, or 0
BearerMatchLen(t, i) ==
    IF LiteralAt(t, i, BearerWord)
    THEN LET w == RunLen(t, i + Len(BearerWord), RegexSpace)
             r == RunLen(t, i + Len(BearerWord) + w, TokenChars)
         IN  IF w >= 1 /\ r >= BearerMin THEN Len(BearerWord) + w + r ELSE 0
    ELSE 0

\* the start of the leftmost match of the second pattern from index i, or 0
NextBearer(t, i) ==
    IF \E j \in i..Len(t) : BearerMatchLen(t, j) > 0
    THEN CHOOSE j \in i..Len(t) :
            BearerMatchLen(t, j) > 0 /\ \A k \in i..(j - 1) : BearerMatchLen(t, k) = 0
    ELSE 0

\* replace_all of the second pattern, scanning from index i
RECURSIVE ReplaceBearer(_, _)
ReplaceBearer(t, i) ==
    LET j == NextBearer(t, i)
    IN  IF j = 0 THEN SubSeq(t, i, Len(t))
        ELSE SubSeq(t, i, j - 1) \o BearerReplacement
                \o ReplaceBearer(t, j + BearerMatchLen(t, j))

\* &token[..3] and &token[token.len() - 3..]
KeepHeadAllButTail(token) == SubSeq(token, 1, Len(token) - KeepLen)
KeepHead(token) == SubSeq(token, 1, KeepLen)
KeepTail(token) == SubSeq(token, Len(token) - KeepLen + 1, Len(token))

\* the closure of the third replace_all
MaskToken(token) ==
    IF Len(token) > FullMaskMax THEN KeepHead(token) \o Mask \o KeepTail(token)
    ELSE Mask

\* whether a run of r token characters matches ([a-zA-Z0-9_-]{24,})
LongEnoughStrict(r) == r > LongMin + FullMaskMax
LongEnough(r) == r >= LongMin

\* the start of the leftmost match of the third pattern from index i, or 0
NextLong(t, i) ==
    IF \E j \in i..Len(t) : LongEnough(RunLen(t, j, TokenChars))
    THEN CHOOSE j \in i..Len(t) :
            /\ LongEnough(RunLen(t, j, TokenChars))
            /\ \A k \in i..(j - 1) : ~LongEnough(RunLen(t, k, TokenChars))
    ELSE 0

\* replace_all of the third pattern, scanning from index i
RECURSIVE ReplaceLong(_, _)
ReplaceLong(t, i) ==
    LET j == NextLong(t, i)
        r == RunLen(t, j, TokenChars)
    IN  IF j = 0 THEN SubSeq(t, i, Len(t))
        ELSE SubSeq(t, i, j - 1) \o MaskToken(SubSeq(t, j, j + r - 1))
                \o ReplaceLong(t, j + r)

\* redact_secrets
redact_secrets(input) == ReplaceLong(ReplaceBearer(ReplaceSk(input, 1), 1), 1)

----------------------------------------------------------------------------
(* utils/ai.rs: AIClient *)

NoCredentialProviders == {"ollama", "lm-studio"}

\* AIClient::new: the configuration checks
AIClientNewNoExemption(cfg) ==
    IF cfg.provider = "" \/ cfg.api_key = "" THEN "Config" ELSE "ok"
AIClientNew(cfg) ==
    IF cfg.provider = "" THEN "Config"
    ELSE IF cfg.api_key = "" /\ cfg.provider \notin NoCredentialProviders THEN "Config"
    ELSE "ok"

\* AIClient::new: the message of the configuration error
AIClientNewMessage(cfg) ==
    IF cfg.provider = "" THEN "Provider not configured"
    ELSE IF cfg.api_key = "" /\ cfg.provider \notin NoCredentialProviders
         THEN "API key not configured"
    ELSE ""

\* AIClient::new: Err(kind(message)) or Ok(client), the HTTP client being
\* built after the checks
AIClientNewResult(cfg, http_client_built) ==
    IF AIClientNew(cfg) # "ok"
    THEN [err |-> AIClientNew(cfg), text |-> AIClientNewMessage(cfg)]
    ELSE IF ~http_client_built
    THEN [err |-> "Http", text |-> "Failed to create HTTP client"]
    ELSE [err |-> "ok", text |-> ""]

\* response.status() as it is displayed
Unauthorized ==
    <<"4", "0", "1", " ", "U", "n", "a", "u", "t", "h", "o", "r",
      "i", "z", "e", "d">>

\* one POST to /chat/completions: how it ended, the status line, the text
\* that came with a failure (the Display of the error, or the body) and
\* choices[0].message.content of a success
Reply(kind, detail, content) ==
    [kind |-> kind, status |-> Unauthorized, detail |-> detail, content |-> content]

\* what one POST to /chat/completions of a run may come to
ApiReplies ==
    {Reply(k, <<>>, <<>>) :
        k \in {"transport_error", "http_status", "bad_json", "no_choices"}}
    \cup {Reply("ok", <<>>, t) : t \in ReplyTexts}

\* the error kind of a reply that yields no text
ReplyError(reply) ==
    CASE reply.kind = "transport_error" -> "Http"
      [] reply.kind = "http_status" -> "Ai"
      [] reply.kind = "bad_json" -> "Ai"
      [] reply.kind = "no_choices" -> "Ai"
      [] OTHER -> "none"

HttpRequestFailed ==
    <<"H", "T", "T", "P", " ", "r", "e", "q", "u", "e", "s", "t",
      " ", "f", "a", "i", "l", "e", "d", ":", " ">>
ApiErrorOpen == <<"A", "P", "I", " ", "e", "r", "r", "o", "r", " ", "(">>
ApiErrorClose == <<")", ":", " ">>
FailedToParse ==
    <<"F", "a", "i", "l", "e", "d", " ", "t", "o", " ", "p", "a",
      "r", "s", "e", " ", "r", "e", "s", "p", "o", "n", "s", "e",
      ":", " ">>
NoChoices ==
    <<"N", "o", " ", "c", "h", "o", "i", "c", "e", "s", " ", "i",
      "n", " ", "r", "e", "s", "p", "o", "n", "s", "e">>

\* the text inside the error of a reply that yields no text
ErrorText(reply) ==
    CASE reply.kind = "transport_error" ->
            redact_secrets(HttpRequestFailed \o reply.detail)
      [] reply.kind = "http_status" ->
            redact_secrets(ApiErrorOpen \o reply.status \o ApiErrorClose \o reply.detail)
      [] reply.kind = "bad_json" -> FailedToParse \o reply.detail
      [] reply.kind = "no_choices" -> NoChoices
      [] OTHER -> <<>>

\* Err(GitAiError::kind(text))
ClientErr(reply) ==
    [ok |-> FALSE, err |-> ReplyError(reply), text |-> ErrorText(reply), value |-> <<>>]

\* generate_commit_message: choices[0].message.content as it came
generate_commit_message(reply) ==
    IF reply.kind # "ok"
    THEN ClientErr(reply)
    ELSE [ok |-> TRUE, err |-> "none", text |-> <<>>, value |-> reply.content]

\* the split of generate_multiple_messages
SplitMessagesKeepEmpty(content) == MapTrim(Split(content))
SplitMessages(content) == SelectSeq(MapTrim(Split(content)), NonEmptyText)

\* generate_multiple_messages
generate_multiple_messages(reply) ==
    IF reply.kind # "ok"
    THEN ClientErr(reply)
    ELSE [ok |-> TRUE, err |-> "none", text |-> <<>>, value |-> SplitMessages(reply.content)]

----------------------------------------------------------------------------
(* commands/commit.rs and commands/msg.rs: the truncation of the diff *)

\* a String is UTF-8: the bytes of one character, named by its code point
\* when it is not ASCII
Utf8Len(c) ==
    CASE c = "U+00E9" -> 2
      [] c = "U+4E2D" -> 3
      [] OTHER -> 1

\* str::len: the length in bytes
RECURSIVE ByteLen(_)
ByteLen(t) == IF t = <<>> THEN 0 ELSE Utf8Len(Head(t)) + ByteLen(Tail(t))

\* str::is_char_boundary(n), for n up to the length in bytes
IsCharBoundary(t, n) == \E k \in 0..Len(t) : ByteLen(SubSeq(t, 1, k)) = n

\* &t[..n] for n on a character boundary: the characters of the first n bytes
BytePrefix(t, n) ==
    SubSeq(t, 1, CHOOSE k \in 0..Len(t) : ByteLen(SubSeq(t, 1, k)) = n)

DigitSeq == <<"0", "1", "2", "3", "4", "5", "6", "7", "8", "9">>
DigitValue(c) == (CHOOSE k \in DOMAIN DigitSeq : DigitSeq[k] = c) - 1

RECURSIVE DigitsValue(_)
DigitsValue(ds) ==
    IF ds = <<>> THEN 0
    ELSE 10 * DigitsValue(SubSeq(ds, 1, Len(ds) - 1)) + DigitValue(ds[Len(ds)])

\* s.parse::<usize>(): an optional plus sign and at least one decimal digit,
\* nothing else (the overrides explored stay far below usize::MAX)
ParseUsize(str) ==
    LET digits == IF str # <<>> /\ Head(str) = "+" THEN Tail(str) ELSE str
    IN  IF digits # <<>> /\ \A k \in DOMAIN digits : digits[k] \in Digits
        THEN Some(DigitsValue(digits))
        ELSE None

\* .unwrap_or(5000)
DefaultMaxDiffChars == 5000

\* let max_diff_chars = env::var("GIT_AI_MAX_DIFF_CHARS").ok()
\*     .and_then(|s| s.parse::<usize>().ok()).unwrap_or(5000)
max_diff_chars(override) ==
    IF is_some(override) /\ is_some(ParseUsize(unwrap(override)))
    THEN unwrap(ParseUsize(unwrap(override)))
    ELSE DefaultMaxDiffChars

\* let (truncated_diff, truncated) = if diff.len() > max_diff_chars
\*     { (diff[..max_diff_chars].to_string(), true) } else { (diff, false) };
\* the slice panics when max_diff_chars is not on a character boundary
TruncateDiff(diff, max) ==
    IF ByteLen(diff) > max
    THEN IF IsCharBoundary(diff, max)
         THEN [panic |-> FALSE, truncated_diff |-> BytePrefix(diff, max), truncated |-> TRUE]
         ELSE [panic |-> TRUE, truncated_diff |-> <<>>, truncated |-> TRUE]
    ELSE [panic |-> FALSE, truncated_diff |-> diff, truncated |-> FALSE]

\* lines 78-88 of commit.rs, 30-40 of msg.rs
PrepareDiff(diff, override) == TruncateDiff(diff, max_diff_chars(override))

----------------------------------------------------------------------------
(* commands/commit.rs: run *)

Unread == [ok |-> FALSE, err |-> "unread", value |-> AIConfigDefault]

\* the configurations a run of the commit command starts from
RunSources ==
    { \* nothing configured
      [g |-> MissingFile, l |-> MissingFile, e |-> EmptyEnv],
      \* a complete per-user file
      [g |-> File([EmptyJson EXCEPT !.provider = "deepseek", !.api_key = "key-global",
                                    !.base_url = "https://global",
                                    !.model = "model-global", !.locale = "zh"]),
       l |-> MissingFile, e |-> EmptyEnv],
      \* a local inference provider named in the environment, no credential
      [g |-> MissingFile, l |-> MissingFile,
       e |-> [EmptyEnv EXCEPT !["OCO_AI_PROVIDER"] = Some("ollama")]],
      \* a provider without its credential
      [g |-> MissingFile, l |-> File([EmptyJson EXCEPT !.provider = "openai"]),
       e |-> EmptyEnv],
      \* files that do not parse
      [g |-> MalformedFile, l |-> MissingFile, e |-> EmptyEnv],
      [g |-> MissingFile, l |-> MalformedFile, e |-> EmptyEnv] }

\* what a call of a collaborator came to: Err(_) or Ok(value)
Results(values, nothing) ==
    {[ok |-> FALSE, value |-> nothing]} \cup {[ok |-> TRUE, value |-> v] : v \in values}

FileLists == {<<>>, <<"a.rs">>}
UnstagedLists == {<<>>, <<[label |-> "a.rs", paths |-> <<"a.rs">>]>>}
Selections == {<<>>, <<1>>}

Init ==
    /\ \E s \in RunSources : globalFile = s.g /\ localFile = s.l /\ env = s.e
    /\ config = Unread
    /\ yes \in BOOLEAN
    /\ num \in 0..MaxNum
    /\ locale_override \in {None, Some("en")}
    /\ agent \in BOOLEAN
    /\ copilot \in BOOLEAN
    /\ impact = "none"
    /\ staged_files = <<>>
    /\ pc = "start"
    /\ system_prompt = ""
    /\ user_prompt = <<>>
    /\ current_messages = <<>>
    /\ selection = "none"
    /\ result = "none"
    /\ genLog = <<>>
    /\ commitLog = <<>>
    /\ regens = 0
    /\ prompts = 0
    /\ editorLog = <<>>
    /\ CommitCommand
    /\ NoDiff
    /\ staging = NoStaging
    /\ NoHook
    /\ NoCall

\* return Err(e) or return Ok(()): the run is over
Return(r) == pc' = "done" /\ result' = r

\* an index out of range: the thread panics and the process ends
Panic == pc' = "done" /\ result' = "Panic"

\* lines 16-64: the staged files, with the offer to stage when there are none
StageFiles ==
    /\ pc = "start"
    /\ \E staged \in Results(FileLists, <<>>),
          unstaged \in Results(UnstagedLists, <<>>),
          selections \in Results(Selections, <<>>),
          added \in BOOLEAN,
          restaged \in Results(FileLists, <<>>) :
        LET read(r) == IF r.ok THEN Some(r.value) ELSE None
            s1 == [NoStaging EXCEPT !.staged_files = read(staged)]
            s2 == [s1 EXCEPT !.unstaged_files = read(unstaged)]
            s3 == [s2 EXCEPT !.selections = read(selections)]
            s4 == [s3 EXCEPT !.restaged = read(restaged)]
            fail(r, held) == Return(r) /\ staging' = held /\ UNCHANGED staged_files
            go(files) == /\ pc' = "config" /\ staged_files' = files
                         /\ staging' = NoStaging /\ UNCHANGED result
        IN  IF ~staged.ok THEN fail("Git", s1)
            ELSE IF staged.value # <<>> THEN go(staged.value)
            ELSE IF ~unstaged.ok THEN fail("Git", s2)
            ELSE IF unstaged.value = <<>> THEN fail("NoStagedChanges", s2)
            ELSE IF ~selections.ok THEN fail("Other", s3)
            ELSE IF selections.value = <<>> THEN fail("UserCancelled", s3)
            ELSE IF ~added THEN fail("Git", s3)
            ELSE IF ~restaged.ok THEN fail("Git", s4)
            ELSE IF restaged.value = <<>> THEN fail("NoStagedChanges", s4)
            ELSE go(restaged.value)
    /\ UNCHANGED <<callVars, hookVars, impact, msgArgs, output, diffVars, cfgVars, args, system_prompt, user_prompt, current_messages,
                   selection, genLog, commitLog, regens, prompts, editorLog>>

\* line 67: let config = ConfigManager::get_merged_config()?
LoadConfig ==
    /\ pc = "config"
    /\ config' = get_merged_config
    /\ IF get_merged_config.ok
       THEN pc' = "diff" /\ UNCHANGED result
       ELSE Return(get_merged_config.err)
    /\ UNCHANGED <<callVars, hookVars, staging, impact, msgArgs, output, diffVars, globalFile, localFile, env, args, staged_files, system_prompt,
                   user_prompt, current_messages, selection, genLog, commitLog,
                   regens, prompts, editorLog>>

\* the staged diff: nothing, or a line with a two-byte character
DiffTexts == {<<>>, <<"+", "U+00E9">>}
BranchNames == {None, Some("feature/login")}
RecentCommits == {None, Some(<<"1a2b3c4 2024-01-01 init">>)}

\* GIT_AI_MAX_DIFF_CHARS in a run: not defined, or a budget below the diff
RunOverrides == {None, Some(<<"1">>), Some(<<"2">>)}

\* the slice of the diff ended inside a character: the thread panics
SlicePanic == "PanicCharBoundary"

\* commit.rs line 74, msg.rs line 26: if diff.is_empty()
DiffIsEmptyNever(diff) == FALSE
DiffIsEmpty(diff) == diff = <<>>

\* line 70: let locale = locale_override.unwrap_or(config.locale.clone())
Locale == IF is_some(locale_override) THEN unwrap(locale_override) ELSE config.value.locale

\* lines 73-108: the staged diff, its truncation, the client and the two prompts
BuildPrompts ==
    /\ pc = "diff"
    /\ \E diff \in Results(DiffTexts, <<>>),
          override \in RunOverrides,
          branch_name \in BranchNames,
          recent_commits \in RecentCommits,
          http_client_built \in BOOLEAN :
        LET prepared == PrepareDiff(diff.value, override)
            fail(r) == /\ Return(r)
                       /\ staged_diff' = IF diff.ok THEN Some(diff.value) ELSE None
                       /\ UNCHANGED <<system_prompt, user_prompt, truncated_diff, truncated>>
        IN  IF ~diff.ok THEN fail("Git")
            ELSE IF DiffIsEmpty(diff.value) THEN fail("NoStagedChanges")
            ELSE IF prepared.panic THEN fail(SlicePanic)
            ELSE /\ staged_diff' = Some(diff.value)
                 /\ truncated_diff' = prepared.truncated_diff
                 /\ truncated' = prepared.truncated
                 /\ IF AIClientNew(config.value) # "ok"
                    THEN Return(AIClientNew(config.value))
                         /\ UNCHANGED <<system_prompt, user_prompt>>
                    ELSE IF ~http_client_built
                    THEN Return("Http") /\ UNCHANGED <<system_prompt, user_prompt>>
                    ELSE /\ system_prompt' = get_system_prompt(Locale, config.value.provider,
                                                               config.value.custom_prompt)
                         /\ user_prompt' = get_user_prompt(prepared.truncated_diff,
                                                           branch_name, recent_commits)
                         /\ pc' = IF agent THEN "agent" ELSE "generate"
                         /\ UNCHANGED result
    /\ UNCHANGED <<callVars, hookVars, staging, impact, msgArgs, output, cfgVars, args, staged_files,
                   current_messages, selection, genLog, commitLog, regens, prompts,
                   editorLog>>

\* what AgentLite::run_analysis may return, and those that trim() leaves empty
AgentContexts == {"", " \n", "\n## Analysis Context\n"}
BlankContexts == {"", " \n"}

\* lines 110-122: the agent-lite analysis, appended to the user prompt when it says something
AgentAnalysis ==
    /\ pc = "agent"
    /\ \E analysis \in Results(AgentContexts, "") :
        user_prompt' = IF analysis.ok /\ analysis.value \notin BlankContexts
                       THEN user_prompt \o <<"\n\n", analysis.value>>
                       ELSE user_prompt
    /\ pc' = "generate"
    /\ UNCHANGED <<callVars, hookVars, staging, impact, msgArgs, output, diffVars, cfgVars, args, staged_files, system_prompt, current_messages,
                   selection, result, genLog, commitLog, regens, prompts, editorLog>>

\* the request of one generation call of run: if num > 1 { many } else { one }
RequestOf(system, user, n) ==
    IF n > 1 THEN MultiRequest(system, user, n) ELSE SingleRequest(system, user)

\* the candidate set of one generation call of run
MessagesOf(n, reply) ==
    IF n > 1 THEN generate_multiple_messages(reply)
    ELSE [ok |-> generate_commit_message(reply).ok,
          err |-> generate_commit_message(reply).err,
          value |-> IF generate_commit_message(reply).ok
                    THEN <<generate_commit_message(reply).value>> ELSE <<>>]

\* lines 129-138: the request of the first generation call
InitialRequest == RequestOf(system_prompt, user_prompt, num)

\* lines 129-138: let messages = ...
InitialMessages(reply) == MessagesOf(num, reply)

\* lines 129-138 and 196: the first generation call; its result enters the review loop
Generate ==
    /\ pc = "generate"
    /\ \E reply \in ApiReplies :
        /\ genLog' = Append(genLog, [request |-> InitialRequest, reply |-> reply.kind])
        /\ IF InitialMessages(reply).ok
           THEN /\ current_messages' = InitialMessages(reply).value
                /\ pc' = IF copilot THEN "copilot" ELSE "generated"
                /\ UNCHANGED result
           ELSE /\ Return(InitialMessages(reply).err)
                /\ UNCHANGED current_messages
    /\ UNCHANGED <<callVars, hookVars, staging, impact, msgArgs, output, diffVars, cfgVars, args, staged_files, system_prompt, user_prompt, selection,
                   commitLog, regens, prompts, editorLog>>

\* how the impact analysis may end: CopilotCLI::is_available() is false, or
\* analyze_code_impact returns Err, or Ok with or without potential issues
ImpactOutcomes == {"unavailable", "failed", "clean", "issues"}

\* lines 143-146 and 191: if copilot && CopilotCLI::is_available() { match ... }
CopilotAnalysis ==
    /\ pc = "copilot"
    /\ impact' \in ImpactOutcomes
    /\ pc' = "copilot_report"
    /\ UNCHANGED <<callVars, hookVars, staging, msgArgs, output, diffVars, cfgVars, args, staged_files,
                   system_prompt, user_prompt, current_messages, selection, result,
                   genLog, commitLog, regens, prompts, editorLog>>

\* the arms of lines 146-195 end without return or ?: the run goes on to line 198
ImpactPropagates(outcome) ==
    IF outcome = "failed" THEN Return("Other") ELSE pc' = "generated" /\ UNCHANGED result
ImpactContinues(outcome) == pc' = "generated" /\ UNCHANGED result

\* lines 146-195: the analysis or the warning is printed, and the analysis is dropped
CopilotReport ==
    /\ pc = "copilot_report"
    /\ ImpactContinues(impact)
    /\ impact' = "none"
    /\ UNCHANGED <<callVars, hookVars, staging, msgArgs, output, diffVars, cfgVars, args, staged_files,
                   system_prompt, user_prompt, current_messages, selection, genLog,
                   commitLog, regens, prompts, editorLog>>

\* what run returns once GitManager::commit(&message)? has ended
CommitIgnoringFailure(committed) == "Ok"
CommitResult(committed) == IF committed THEN "Ok" ELSE "Git"

\* GitManager::commit(&message)?: the invocation is recorded with how git ended
Commit(message) ==
    \E committed \in BOOLEAN :
        /\ commitLog' = Append(commitLog, [message |-> message, ok |-> committed])
        /\ Return(CommitResult(committed))

\* lines 209 and 227: let message = current_messages[0].clone()
MessageToCommit == current_messages[1]

\* lines 207-213: auto-commit mode
AutoCommit ==
    /\ pc = "generated"
    /\ yes
    /\ IF current_messages = <<>>
       THEN Panic /\ UNCHANGED commitLog
       ELSE Commit(MessageToCommit)
    /\ UNCHANGED <<callVars, hookVars, staging, impact, msgArgs, output, diffVars, cfgVars, args, staged_files, system_prompt, user_prompt,
                   current_messages, selection, genLog, regens, prompts, editorLog>>

\* lines 215-222: the option prompt could not be read; this iteration binds no selection
SelectFailed ==
    /\ pc = "generated"
    /\ ~yes
    /\ prompts' = prompts + 1
    /\ selection' = "none"
    /\ Return("Other")
    /\ UNCHANGED <<callVars, hookVars, staging, impact, msgArgs, output, diffVars, cfgVars, args, staged_files, system_prompt, user_prompt,
                   current_messages, genLog, commitLog, regens, editorLog>>

\* lines 225-231: Commit
SelectCommit ==
    /\ pc = "generated"
    /\ ~yes
    /\ prompts' = prompts + 1
    /\ selection' = "Commit"
    /\ IF current_messages = <<>>
       THEN Panic /\ UNCHANGED commitLog
       ELSE Commit(MessageToCommit)
    /\ UNCHANGED <<callVars, hookVars, staging, impact, msgArgs, output, diffVars, cfgVars, args, staged_files, system_prompt, user_prompt,
                   current_messages, genLog, regens, editorLog>>

\* how an editor session may end: edit_message, lines 274-317
EditorOutcomes ==
    {[status |-> k, text |-> <<>>] :
        k \in {"create_failed", "write_failed", "spawn_failed", "exit_nonzero", "read_failed"}}
    \cup {[status |-> "exit_zero", text |-> t] : t \in EditTexts(MaxEditLen)}

\* edit_message: Result<String>
edit_message(outcome) ==
    IF outcome.status = "exit_zero"
    THEN [ok |-> TRUE, err |-> "none", value |-> outcome.text]
    ELSE [ok |-> FALSE, err |-> "Other", value |-> <<>>]

\* line 236: !edited_message.trim().is_empty()
EditedIsUsable(edited) == Trim(edited) # <<>>

\* line 237: the text handed to GitManager::commit after an edit
EditedTrimmed(edited) == Trim(edited)
EditedToCommit(edited) == edited

\* lines 232-244: Edit
SelectEdit ==
    /\ pc = "generated"
    /\ ~yes
    /\ prompts' = prompts + 1
    /\ selection' = "Edit"
    /\ IF current_messages = <<>>
       THEN Panic /\ UNCHANGED <<commitLog, editorLog>>
       ELSE \E outcome \in EditorOutcomes :
            /\ editorLog' = Append(editorLog, [seed |-> current_messages[1],
                                               status |-> outcome.status,
                                               text |-> outcome.text])
            /\ IF ~edit_message(outcome).ok
               THEN Return(edit_message(outcome).err) /\ UNCHANGED commitLog
               ELSE IF EditedIsUsable(edit_message(outcome).value)
               THEN Commit(EditedToCommit(edit_message(outcome).value))
               ELSE Return("UserCancelled") /\ UNCHANGED commitLog
    /\ UNCHANGED <<callVars, hookVars, staging, impact, msgArgs, output, diffVars, cfgVars, args, staged_files, system_prompt, user_prompt,
                   current_messages, genLog, regens>>

\* lines 251-259: the request of a regeneration
RegenerateRequestSingle == SingleRequest(system_prompt, user_prompt)
RegenerateRequest == RequestOf(system_prompt, user_prompt, num)

\* lines 251-259: current_messages = ...
RegeneratedMessages(reply) == MessagesOf(num, reply)

\* lines 245-263: Regenerate
SelectRegenerate ==
    /\ pc = "generated"
    /\ ~yes
    /\ regens < MaxRegens
    /\ prompts' = prompts + 1
    /\ selection' = "Regenerate"
    /\ regens' = regens + 1
    /\ \E reply \in ApiReplies :
        /\ genLog' = Append(genLog, [request |-> RegenerateRequest, reply |-> reply.kind])
        /\ IF RegeneratedMessages(reply).ok
           THEN /\ current_messages' = RegeneratedMessages(reply).value
                /\ UNCHANGED <<pc, result>>
           ELSE /\ Return(RegeneratedMessages(reply).err)
                /\ UNCHANGED current_messages
    /\ UNCHANGED <<callVars, hookVars, staging, impact, msgArgs, output, diffVars, cfgVars, args, staged_files, system_prompt, user_prompt,
                   commitLog, editorLog>>

\* line 267: what Cancel returns
CancelReturnsOk == "Ok"
CancelResult == "UserCancelled"

\* lines 264-268: Cancel
SelectCancel ==
    /\ pc = "generated"
    /\ ~yes
    /\ prompts' = prompts + 1
    /\ selection' = "Cancel"
    /\ Return(CancelResult)
    /\ UNCHANGED <<callVars, hookVars, staging, impact, msgArgs, output, diffVars, cfgVars, args, staged_files, system_prompt, user_prompt,
                   current_messages, genLog, commitLog, regens, editorLog>>

Next ==
    \/ StageFiles
    \/ LoadConfig
    \/ BuildPrompts
    \/ AgentAnalysis
    \/ Generate
    \/ CopilotAnalysis
    \/ CopilotReport
    \/ AutoCommit
    \/ SelectFailed
    \/ SelectCommit
    \/ SelectEdit
    \/ SelectRegenerate
    \/ SelectCancel

Spec == Init /\ [][Next]_vars

----------------------------------------------------------------------------
(* Configuration resolution on its own: every combination of the sources    *)
(* above, with the run standing at line 67.                                 *)

InitConfig ==
    /\ \/ /\ globalFile \in {MissingFile, MalformedFile} \cup StringFiles(GlobalVal)
          /\ localFile \in {MissingFile, MalformedFile} \cup StringFiles(LocalVal)
          /\ env \in StringEnvs
       \/ /\ globalFile \in {MissingFile} \cup OptionFiles(GlobalVal)
          /\ localFile \in {MissingFile} \cup OptionFiles(LocalVal)
          /\ env \in OptionEnvs
    /\ config = Unread
    /\ yes = FALSE
    /\ num = 1
    /\ locale_override = None
    /\ agent = FALSE
    /\ copilot = FALSE
    /\ impact = "none"
    /\ staged_files = <<"a.rs">>
    /\ pc = "config"
    /\ system_prompt = ""
    /\ user_prompt = <<>>
    /\ current_messages = <<>>
    /\ selection = "none"
    /\ result = "none"
    /\ genLog = <<>>
    /\ commitLog = <<>>
    /\ regens = 0
    /\ prompts = 0
    /\ editorLog = <<>>
    /\ CommitCommand
    /\ NoDiff
    /\ staging = NoStaging
    /\ NoHook
    /\ NoCall

SpecConfig == InitConfig /\ [][LoadConfig]_vars

\* the three layers as get_merged_config reads them
GlobalLayer == read_global_config.value
LocalLayer == read_local_config.value
EnvLayer == read_env_config

Merged == config.value

StringFields == {"provider", "api_key", "base_url", "model"}

\* C2: each string field of the merged configuration is the value of the
\* highest-priority layer (environment, then local, then global) in which it
\* is non-empty, and it is empty only if it is empty in all three layers.
C2_StringPrecedence ==
    config.ok =>
        \A f \in StringFields :
            /\ Merged[f] = IF EnvLayer[f] # "" THEN EnvLayer[f]
                           ELSE IF LocalLayer[f] # "" THEN LocalLayer[f]
                           ELSE GlobalLayer[f]
            /\ Merged[f] = "" <=>
                   (EnvLayer[f] = "" /\ LocalLayer[f] = "" /\ GlobalLayer[f] = "")

\* a merge where the local file wins over the global one for the provider,
\* the environment being silent, while the environment wins for the model
C2_Witness ==
    /\ config.ok
    /\ GlobalLayer.provider = "deepseek" /\ LocalLayer.provider = "openai"
    /\ EnvLayer.provider = "" /\ Merged.provider = "openai"
    /\ GlobalLayer.model = "model-global" /\ LocalLayer.model = "model-local"
    /\ Merged.model = "model-env"
    /\ GlobalLayer.api_key = "key-global" /\ LocalLayer.api_key = ""
    /\ EnvLayer.api_key = "" /\ Merged.api_key = "key-global"

NonDefaultLocale(l) == l # "" /\ l # "en"

FileProvides(file, f) == file.state = "present" /\ file.json[f] # Absent
OptionEnvName(f) ==
    CASE f = "agent_model" -> "GIT_AI_AGENT_MODEL"
      [] f = "custom_prompt" -> "GIT_AI_CUSTOM_PROMPT"
      [] f = "enable_footer" -> "GIT_AI_ENABLE_FOOTER"
EnvProvides(f) == is_some(env[OptionEnvName(f)])

OptionFields == {"agent_model", "custom_prompt", "enable_footer"}

\* C4: each optional field of the merged configuration is the value of the
\* highest-priority layer that provides it (key in the file, variable
\* defined); a layer that does not provide it leaves a lower layer's value.
C4_OptionPrecedence ==
    config.ok =>
        \A f \in OptionFields :
            IF EnvProvides(f) THEN Merged[f] = EnvLayer[f]
            ELSE IF FileProvides(localFile, f) THEN Merged[f] = LocalLayer[f]
            ELSE IF FileProvides(globalFile, f) THEN Merged[f] = GlobalLayer[f]
            ELSE TRUE

----------------------------------------------------------------------------
(* The review loop of the commit command *)

\* the run has entered the review loop: state Generated was reached
ReachedGenerated ==
    \/ pc = "generated"
    \/ pc = "done" /\ (prompts > 0 \/ commitLog # <<>> \/ result = "Panic")

\* the terminal states of the review loop
Committed == result = "Ok" /\ Len(commitLog) = 1 /\ commitLog[1].ok
Cancelled == result = "UserCancelled" /\ commitLog = <<>>
LastReplyFailed == genLog # <<>> /\ genLog[Len(genLog)].reply # "ok"
FailedRun ==
    \/ result = "Git" /\ Len(commitLog) = 1 /\ ~commitLog[1].ok
    \/ result \in {"Ai", "Http"} /\ selection = "Regenerate" /\ LastReplyFailed
         /\ commitLog = <<>>
    \/ result = "Other" /\ selection \in {"none", "Edit"} /\ commitLog = <<>>
Panicked == result = "Panic" /\ current_messages = <<>> /\ commitLog = <<>>

\* C1, as claimed: from Generated every run ends in Committed or in
\* Cancelled, whatever the collaborators do, and Regenerate never ends a run.
C1_OnlyCommittedOrCancelled ==
    (ReachedGenerated /\ pc = "done") =>
        /\ Committed \/ Cancelled
        /\ selection # "Regenerate"

\* C1, amended: a run that ends after Generated ends in exactly one of
\* Committed, Cancelled, Failed (the error of the commit, of a regeneration,
\* of the option prompt or of the editor) or a panic on an empty candidate
\* set; Regenerate leads back to Generated unless its generation call fails,
\* and then the run ends with that error, never in Committed or Cancelled.
C1_Terminality ==
    /\ (ReachedGenerated /\ pc = "done") =>
          /\ Committed \/ Cancelled \/ FailedRun \/ Panicked
          /\ result \in {"Ok", "UserCancelled", "Git", "Ai", "Http", "Other", "Panic"}
    /\ (ReachedGenerated /\ selection = "Regenerate") =>
          \/ pc = "generated" /\ result = "none" /\ ~LastReplyFailed
          \/ pc = "done" /\ result \in {"Ai", "Http"} /\ LastReplyFailed

\* after one regeneration the user chose Commit and git committed
C1_Witness ==
    pc = "done" /\ regens = 1 /\ selection = "Commit" /\ Committed

\* C5: in state Generated the candidate set is never empty, so that
\* candidate[0] exists whenever it is shown, committed or edited.
C5_CandidatesNonEmpty ==
    /\ pc = "generated" => current_messages # <<>>
    /\ result # "Panic"

\* C6: GitManager::commit is invoked at most once in a run, the run returns
\* Ok exactly when that invocation succeeded, and a run that ends otherwise
\* has made no successful commit.
C6_SingleCommit ==
    /\ Len(commitLog) <= 1
    /\ result = "Ok" <=> (Len(commitLog) = 1 /\ commitLog[1].ok)
    /\ (pc = "done" /\ result # "Ok") => \A i \in DOMAIN commitLog : ~commitLog[i].ok
    /\ pc # "done" => (commitLog = <<>> /\ result = "none")

\* git refused the one commit of the run, which ended with the Git error
C6_Witness ==
    pc = "done" /\ result = "Git" /\ Len(commitLog) = 1 /\ ~commitLog[1].ok

\* the candidate sets one successful generation call can produce
PossibleCandidateSets(n) ==
    {MessagesOf(n, reply).value : reply \in {r \in ApiReplies : r.kind = "ok"}}

\* C7: every Regenerate issues one generation call with the request of the
\* first call (prompts and count), so the calls number 1 + regens; the
\* candidate set is the result of the latest call alone; a failed call is the
\* last one and its error is the result of the run.
C7_RegenerateCalls ==
    /\ genLog = <<>> => regens = 0
    /\ genLog # <<>> => Len(genLog) = 1 + regens
    /\ \A i \in DOMAIN genLog :
          /\ genLog[i].request = genLog[1].request
          /\ genLog[i].request.system = system_prompt
          /\ genLog[i].reply # "ok" =>
                /\ i = Len(genLog)
                /\ pc = "done"
                /\ result = IF genLog[i].reply = "transport_error" THEN "Http" ELSE "Ai"
    /\ pc = "generated" => current_messages \in PossibleCandidateSets(num)

\* two regenerations of a request for two messages
C7_Witness ==
    pc = "generated" /\ regens = 2 /\ Len(genLog) = 3 /\ num = 2
        /\ Len(current_messages) = 2

\* C8: choosing Commit invokes GitManager::commit with the text of
\* candidate[0] of the current candidate set, however many it holds.
C8_CommitUsesFirstCandidate ==
    (pc = "done" /\ selection = "Commit") =>
        /\ Len(commitLog) = 1
        /\ current_messages # <<>>
        /\ commitLog[1].message = current_messages[1]

\* C9: with --yes the first candidate set leads straight to the commit of
\* candidate[0]: no option prompt, no editor, no second generation call.
C9_AutoAccept ==
    (yes /\ ReachedGenerated) =>
        /\ prompts = 0
        /\ editorLog = <<>>
        /\ Len(genLog) = 1
        /\ pc = "done" =>
              /\ Len(commitLog) = 1
              /\ current_messages # <<>>
              /\ commitLog[1].message = current_messages[1]

WhitespaceOnly(t) == \A k \in DOMAIN t : t[k] \in Whitespace

\* C10: after Edit, when the editor exits with status zero, a text that is
\* not blank is handed to GitManager::commit exactly as edited, and a blank
\* text ends the run with UserCancelled without any commit invocation.
C10_EditOutcome ==
    \A i \in DOMAIN editorLog :
        editorLog[i].status = "exit_zero" =>
            IF WhitespaceOnly(editorLog[i].text)
            THEN result = "UserCancelled" /\ commitLog = <<>>
            ELSE /\ Len(commitLog) = 1
                 /\ commitLog[1].message = editorLog[i].text
                 /\ result = IF commitLog[1].ok THEN "Ok" ELSE "Git"

\* an edited text with leading whitespace was committed as it stood
C10_Witness ==
    /\ Len(editorLog) = 1 /\ editorLog[1].status = "exit_zero"
    /\ editorLog[1].text = <<" ", "e">>
    /\ Len(commitLog) = 1 /\ commitLog[1].message = <<" ", "e">>
    /\ result = "Ok"

\* C11: after Edit, when the editor process exits with a non-zero status,
\* the run ends as Cancelled, with the UserCancelled error of an empty edit,
\* and GitManager::commit is never invoked.
C11_EditorFailureCancels ==
    \A i \in DOMAIN editorLog :
        editorLog[i].status = "exit_nonzero" =>
            /\ pc = "done"
            /\ result = "UserCancelled"
            /\ commitLog = <<>>

----------------------------------------------------------------------------
(* Secret redaction on its own: redact_secrets applied to a text, and then  *)
(* to its own result.                                                       *)

\* thirty-six different letters and digits, from which the tokens are cut
TokenBase ==
    <<"a", "1", "b", "2", "c", "3", "d", "4", "e", "5", "f", "6",
      "g", "7", "h", "8", "i", "9", "j", "0", "k", "L", "m", "N",
      "o", "P", "q", "R", "s", "T", "u", "V", "w", "X", "y", "Z">>
Token(n) == SubSeq(TokenBase, 1, n)

\* n times the character c
Repeat(c, n) == [k \in 1..n |-> c]

\* credentials and shorter words: below, at and above the three repetition
\* bounds, all letters and digits or with an underscore, or ending in Bearer
RedactTokens ==
    { Token(6), Token(19), Token(20), Token(23), Token(24), Token(30),
      Token(11) \o <<"_">> \o SubSeq(TokenBase, 13, 30),
      Token(24) \o BearerWord }

\* what stands before the token
RedactBefore ==
    { <<>>,
      SkPrefix,
      BearerWord \o <<" ">>,
      BearerWord \o <<" ", "\t">>,
      <<"k", "e", "y", "=">>,
      Repeat("Z", 21) \o SkPrefix,
      <<"A", "u", "t", "h", "o", "r", "i", "z", "a", "t", "i", "o", "n", ":", " ">> \o BearerWord \o <<" ">> \o SkPrefix,
      <<"_">> }

\* what stands after it
RedactAfter ==
    { <<>>,
      <<" ">>,
      <<"-">> \o SkPrefix \o Repeat("q", 20),
      <<" ">> \o Repeat("r", 20),
      <<"_", "t">> }

RedactInputs ==
    {before \o token \o after :
        before \in RedactBefore, token \in RedactTokens, after \in RedactAfter}

\* the run of the commit command plays no part
RunIdle ==
    /\ globalFile = MissingFile /\ localFile = MissingFile /\ env = EmptyEnv
    /\ config = Unread
    /\ yes = FALSE /\ num = 1 /\ locale_override = None /\ agent = FALSE
    /\ copilot = FALSE /\ impact = "none"
    /\ staged_files = <<>>
    /\ pc = "start"
    /\ system_prompt = ""
    /\ user_prompt = <<>>
    /\ current_messages = <<>>
    /\ selection = "none"
    /\ result = "none"
    /\ genLog = <<>> /\ commitLog = <<>> /\ editorLog = <<>>
    /\ regens = 0 /\ prompts = 0
    /\ CommitCommand
    /\ NoDiff
    /\ staging = NoStaging
    /\ NoHook

InitRedact ==
    /\ RunIdle
    /\ callee = "redact_secrets"
    /\ callArg \in RedactInputs
    /\ callRet = <<>>
    /\ callCount = 0

\* redact_secrets(input), and then redact_secrets of what it returned
CallRedact ==
    /\ callee = "redact_secrets"
    /\ callCount < 2
    /\ callArg' = IF callCount = 0 THEN callArg ELSE callRet
    /\ callRet' = redact_secrets(IF callCount = 0 THEN callArg ELSE callRet)
    /\ callCount' = callCount + 1
    /\ UNCHANGED <<callee, cfgVars, runVars>>

SpecRedact == InitRedact /\ [][CallRedact]_vars

\* whether p occurs in t
Contains(t, p) == \E k \in 1..Len(t) : LiteralAt(t, k, p)

\* C12: redaction is idempotent: redacting a redacted text returns it
\* unchanged.
C12_RedactIdempotent ==
    (callee = "redact_secrets" /\ callCount = 2) => callRet = callArg

\* a text in which both an sk- key and a long token were masked is redacted
\* again
C12_Witness ==
    /\ callee = "redact_secrets" /\ callCount = 2
    /\ Contains(callArg, SkReplacement)
    /\ Contains(callArg, <<"Z", "Z", "Z">> \o Mask)
    /\ callRet = callArg

\* whether a token of thirty letters and digits stands at index i of t
SecretAt(t, i) ==
    i + 29 <= Len(t) /\ \A k \in i..(i + 29) : t[k] \in Alnum

\* the maximal runs of at least 24 token characters of t, as <<first, last>>
LongRuns(t) ==
    {<<a, b>> \in (1..Len(t)) \X (1..Len(t)) :
        /\ b - a + 1 >= LongMin
        /\ \A k \in a..b : t[k] \in TokenChars
        /\ a > 1 => t[a - 1] \notin TokenChars
        /\ b < Len(t) => t[b + 1] \notin TokenChars}

\* a text without the words of the two special patterns
Generic(t) == ~Contains(t, SkPrefix) /\ ~Contains(t, BearerWord)

----------------------------------------------------------------------------
(* The generation client on its own: generate_commit_message and            *)
(* generate_multiple_messages applied to one reply of the remote API.       *)

\* the text that comes with a failed request: the Display of the transport
\* or decoding error, or the body of the error response; it may quote the
\* request (the Authorization header) or the response
ErrorDetails ==
    { <<>>,
      <<"c", "o", "n", "n", "e", "c", "t", "i", "o", "n", " ", "r",
        "e", "f", "u", "s", "e", "d">>,
      <<"U", "n", "k", "n", "o", "w", "n", " ", "e", "r", "r", "o",
        "r">>,
      BearerWord \o <<" ">> \o Token(30),
      SkPrefix \o Token(24),
      <<"i", "n", "v", "a", "l", "i", "d", " ", "t", "y", "p", "e",
        ":", " ", "s", "t", "r", "i", "n", "g", " ", "\"">> \o Token(30) \o <<"\"">>,
      Token(20) }

ClientReplies ==
    {Reply(k, d, <<>>) :
        k \in {"transport_error", "http_status", "bad_json"}, d \in ErrorDetails}
    \cup {Reply("no_choices", <<>>, <<>>)}
    \cup {Reply("ok", <<>>, t) : t \in ReplyTexts}

ClientCallees == {"generate_commit_message", "generate_multiple_messages"}

InitClient ==
    /\ RunIdle
    /\ callee \in ClientCallees
    /\ \E reply \in ClientReplies, count \in 1..MaxNum :
          /\ callee = "generate_commit_message" => count = 1
          /\ callArg = [reply |-> reply, count |-> count]
    /\ callRet = <<>>
    /\ callCount = 0

\* generate_commit_message(system_prompt, user_prompt) on the reply
CallGenerateOne ==
    /\ callee = "generate_commit_message"
    /\ callCount = 0
    /\ callRet' = generate_commit_message(callArg.reply)
    /\ callCount' = 1
    /\ UNCHANGED <<callee, callArg, cfgVars, runVars>>

\* generate_multiple_messages(system_prompt, user_prompt, count) on the reply
CallGenerateMany ==
    /\ callee = "generate_multiple_messages"
    /\ callCount = 0
    /\ callRet' = generate_multiple_messages(callArg.reply)
    /\ callCount' = 1
    /\ UNCHANGED <<callee, callArg, cfgVars, runVars>>

NextClient == CallGenerateOne \/ CallGenerateMany

SpecClient == InitClient /\ [][NextClient]_vars

\* the client has answered
ClientReturned == callee \in ClientCallees /\ callCount = 1

\* a text in which one of the three patterns of the redactor matches
CredentialShaped(t) ==
    \E i \in 1..Len(t) :
        \/ SkMatchLen(t, i) > 0
        \/ BearerMatchLen(t, i) > 0
        \/ LongEnough(RunLen(t, i, TokenChars))

\* the failures whose text may echo the request or the response
EchoingFailures == {"transport_error", "http_status", "bad_json"}

\* C14: the text of every error of generate_commit_message and of
\* generate_multiple_messages that may echo the request or the response
\* (transport failure, non-success status, response that does not parse)
\* has passed through the redactor: redaction leaves it unchanged and it
\* holds nothing shaped like a credential.
C14_ErrorsRedacted ==
    (ClientReturned /\ callArg.reply.kind \in EchoingFailures) =>
        /\ ~callRet.ok
        /\ redact_secrets(callRet.text) = callRet.text
        /\ ~CredentialShaped(callRet.text)

\* the error kind each function gives to a cause of failure
ErrorKindOf(fn, cause) ==
    IF fn = "generate_commit_message"
    THEN generate_commit_message(Reply(cause, <<>>, <<>>)).err
    ELSE generate_multiple_messages(Reply(cause, <<>>, <<>>)).err

DistinctCauses == {"bad_json", "transport_error", "no_choices"}

\* C15: a malformed response body, a transport failure and a response with
\* zero choices are reported with three different error kinds: the kind of
\* the error returned for one of them is the kind of no other.
C15_ErrorKindsDistinct ==
    (ClientReturned /\ callArg.reply.kind \in DistinctCauses) =>
        /\ ~callRet.ok
        /\ \A other \in DistinctCauses \ {callArg.reply.kind} :
              callRet.err # ErrorKindOf(callee, other)

\* the starts of the delimiters at which str::split cuts t: every occurrence
\* that no earlier cut overlaps
Cuts(t) ==
    LET occurrences == {i \in 1..Len(t) : DelimiterAt(t, i)}
    IN  CHOOSE C \in SUBSET occurrences :
            \A i \in occurrences :
                i \in C <=> ~\E j \in C : j < i /\ i < j + Len(Delimiter)

\* the cuts in increasing order
SortedCuts(t) ==
    CHOOSE f \in [1..Cardinality(Cuts(t)) -> Cuts(t)] :
        \A a, b \in DOMAIN f : a < b => f[a] < f[b]

\* the k-th piece between the cuts, from 0
Piece(t, k) ==
    LET f == SortedCuts(t)
        n == Len(f)
    IN  SubSeq(t, IF k = 0 THEN 1 ELSE f[k] + Len(Delimiter),
                  IF k = n THEN Len(t) ELSE f[k + 1] - 1)

\* whether m is the piece less the whitespace around it
IsTrimOf(m, piece) ==
    \E a, b \in 0..Len(piece) :
        /\ a + b <= Len(piece)
        /\ m = SubSeq(piece, a + 1, Len(piece) - b)
        /\ \A k \in 1..a : piece[k] \in Whitespace
        /\ \A k \in (Len(piece) - b + 1)..Len(piece) : piece[k] \in Whitespace
        /\ m # <<>> => (m[1] \notin Whitespace /\ m[Len(m)] \notin Whitespace)

\* C19: generate_multiple_messages returns, in order, the pieces of the
\* first choice's text between the "---" delimiters, each without the
\* whitespace around it, less the empty ones; no message is empty, starts
\* or ends with whitespace or holds the delimiter; the number of messages
\* need not be the count asked for.
C19_SplitSegments ==
    (ClientReturned /\ callee = "generate_multiple_messages"
        /\ callArg.reply.kind = "ok") =>
        LET content == callArg.reply.content
            n == Cardinality(Cuts(content))
            messages == callRet.value
        IN  /\ callRet.ok
            /\ \A k \in DOMAIN messages :
                  /\ messages[k] # <<>>
                  /\ messages[k][1] \notin Whitespace
                  /\ messages[k][Len(messages[k])] \notin Whitespace
                  /\ ~Contains(messages[k], Delimiter)
            /\ \E g \in [DOMAIN messages -> 0..n] :
                  /\ \A a, b \in DOMAIN g : a < b => g[a] < g[b]
                  /\ \A k \in DOMAIN g : IsTrimOf(messages[k], Piece(content, g[k]))
                  /\ \A p \in 0..n :
                        (~\E k \in DOMAIN g : g[k] = p) => IsTrimOf(<<>>, Piece(content, p))

\* two messages were asked for and the reply held three, one of them after
\* an empty line
C19_Witness ==
    /\ ClientReturned /\ callee = "generate_multiple_messages"
    /\ callArg.count = 2
    /\ callArg.reply.content = <<"b", "\n", "-", "-", "-", "\n", "a", "-", "-", "-", "c">>
    /\ callRet.ok
    /\ callRet.value = <<<<"b">>, <<"a">>, <<"c">>>>

----------------------------------------------------------------------------
(* The construction of the generation client on its own                     *)

\* the configurations handed to AIClient::new
NewClientConfigs ==
    {[AIConfigDefault EXCEPT !.provider = p, !.api_key = k, !.base_url = b, !.model = m] :
        p \in {"", " ", "openai", "deepseek", "ollama", "lm-studio", "Ollama"},
        k \in {"", " ", "key"},
        b \in {"", "https://api"},
        m \in {"", "model"}}

InitNewClient ==
    /\ RunIdle
    /\ callee = "AIClient::new"
    /\ \E cfg \in NewClientConfigs, http_client_built \in BOOLEAN :
          callArg = [config |-> cfg, http_client_built |-> http_client_built]
    /\ callRet = <<>>
    /\ callCount = 0

\* AIClient::new(config)
CallNewClient ==
    /\ callee = "AIClient::new"
    /\ callCount = 0
    /\ callRet' = AIClientNewResult(callArg.config, callArg.http_client_built)
    /\ callCount' = 1
    /\ UNCHANGED <<callee, callArg, cfgVars, runVars>>

SpecNewClient == InitNewClient /\ [][CallNewClient]_vars

\* C16: AIClient::new fails with a configuration error exactly when the
\* provider is empty, or the credential is empty and the provider is neither
\* ollama nor lm-studio; when both are empty the error is that of the
\* provider.
C16_ClientConstruction ==
    (callee = "AIClient::new" /\ callCount = 1) =>
        LET provider == callArg.config.provider
            credential == callArg.config.api_key
        IN  /\ callRet.err = "Config" <=>
                   \/ provider = ""
                   \/ credential = "" /\ provider \notin {"ollama", "lm-studio"}
            /\ callRet.err \in {"Config", "Http", "ok"}
            /\ (provider = "" /\ credential = "") =>
                   callRet.text = "Provider not configured"
            /\ (provider # "" /\ callRet.err = "Config") =>
                   callRet.text = "API key not configured"

\* lm-studio without a credential: the client is constructed
C16_Witness ==
    /\ callee = "AIClient::new" /\ callCount = 1
    /\ callArg.config.provider = "lm-studio" /\ callArg.config.api_key = ""
    /\ callRet.err = "ok"

----------------------------------------------------------------------------
(* Configuration resolution: a layer that provides nothing *)

\* C20: a layer that provides nothing contributes nothing: when no
\* recognized environment variable is defined, or a file is missing, the
\* merged configuration is, in every field, the merge of the two remaining
\* layers alone.
C20_SilentLayer ==
    config.ok =>
        /\ env = EmptyEnv => Merged = Overlay(GlobalLayer, LocalLayer)
        /\ localFile.state = "missing" => Merged = Overlay(GlobalLayer, EnvLayer)
        /\ globalFile.state = "missing" => Merged = Overlay(LocalLayer, EnvLayer)

----------------------------------------------------------------------------
(* The truncation of the diff on its own *)

\* staged diffs of ASCII and of longer characters
DiffAlphabet == {"a", "U+00E9", "U+4E2D"}
TruncateDiffs == UNION {[1..k -> DiffAlphabet] : k \in 1..MaxDiffLen}

\* GIT_AI_MAX_DIFF_CHARS: not defined, a small budget, or no unsigned integer
MaxDiffOverrides ==
    {None}
    \cup {Some(<<d>>) : d \in {"0", "1", "2", "3", "4"}}
    \cup {Some(<<"+", "2">>), Some(<<"1", "0">>), Some(<<"-", "1">>), Some(<<"x">>),
          Some(<<>>), Some(<<"2", " ">>)}

InitTruncate ==
    /\ RunIdle
    /\ callee = "truncate_diff"
    /\ \E diff \in TruncateDiffs, override \in MaxDiffOverrides :
          callArg = [diff |-> diff, override |-> override]
    /\ callRet = <<>>
    /\ callCount = 0

\* lines 78-88 of commit.rs, 30-40 of msg.rs, on one diff
CallTruncate ==
    /\ callee = "truncate_diff"
    /\ callCount = 0
    /\ callRet' = PrepareDiff(callArg.diff, callArg.override)
    /\ callCount' = 1
    /\ UNCHANGED <<callee, callArg, cfgVars, runVars>>

SpecTruncate == InitTruncate /\ [][CallTruncate]_vars

\* C17: with the budget B (5000, or the override when it parses as an
\* unsigned integer), a diff of more than B characters is cut to its first B
\* characters and flagged truncated, and a diff of at most B characters is
\* left as it is and not flagged, whatever characters it holds.
C17_TruncateToBudget ==
    (callee = "truncate_diff" /\ callCount = 1) =>
        LET diff == callArg.diff
            B == max_diff_chars(callArg.override)
        IN  /\ ~callRet.panic
            /\ IF Len(diff) > B
               THEN /\ Len(callRet.truncated_diff) = B
                    /\ callRet.truncated_diff = SubSeq(diff, 1, B)
                    /\ callRet.truncated
               ELSE /\ callRet.truncated_diff = diff
                    /\ ~callRet.truncated

----------------------------------------------------------------------------
(* commands/msg.rs: run *)

InitMsg ==
    /\ \E s \in RunSources : globalFile = s.g /\ localFile = s.l /\ env = s.e
    /\ config = Unread
    /\ command = "msg"
    /\ json_output \in BOOLEAN
    /\ quiet \in BOOLEAN
    /\ num \in 0..MaxNum
    /\ locale_override \in {None, Some("en")}
    /\ yes = FALSE
    /\ agent = FALSE
    /\ copilot = FALSE
    /\ impact = "none"
    /\ staged_files = <<>>
    /\ pc = "msg_start"
    /\ system_prompt = ""
    /\ user_prompt = <<>>
    /\ current_messages = <<>>
    /\ selection = "none"
    /\ result = "none"
    /\ genLog = <<>>
    /\ commitLog = <<>>
    /\ regens = 0
    /\ prompts = 0
    /\ editorLog = <<>>
    /\ output = NoOutput
    /\ NoDiff
    /\ staging = NoStaging
    /\ NoHook
    /\ NoCall

\* lines 13-16: the staged files
MsgStageFiles ==
    /\ pc = "msg_start"
    /\ \E staged \in Results(FileLists, <<>>) :
        LET held == [NoStaging EXCEPT
                        !.staged_files = IF staged.ok THEN Some(staged.value) ELSE None]
            fail(r) == Return(r) /\ staging' = held /\ UNCHANGED staged_files
        IN  IF ~staged.ok THEN fail("Git")
            ELSE IF staged.value = <<>> THEN fail("NoStagedChanges")
            ELSE /\ pc' = "msg_config" /\ staged_files' = staged.value
                 /\ staging' = NoStaging /\ UNCHANGED result
    /\ UNCHANGED <<callVars, hookVars, impact, msgArgs, output, diffVars, cfgVars, args, system_prompt,
                   user_prompt, current_messages, selection, genLog, commitLog, regens,
                   prompts, editorLog>>

\* line 19: let config = ConfigManager::get_merged_config()?
MsgLoadConfig ==
    /\ pc = "msg_config"
    /\ config' = get_merged_config
    /\ IF get_merged_config.ok
       THEN pc' = "msg_diff" /\ UNCHANGED result
       ELSE Return(get_merged_config.err)
    /\ UNCHANGED <<callVars, hookVars, staging, impact, msgArgs, output, diffVars, globalFile, localFile, env, args,
                   staged_files, system_prompt, user_prompt, current_messages, selection,
                   genLog, commitLog, regens, prompts, editorLog>>

\* lines 22-60: the staged diff, its truncation, the client and the two prompts
MsgBuildPrompts ==
    /\ pc = "msg_diff"
    /\ \E diff \in Results(DiffTexts, <<>>),
          override \in RunOverrides,
          branch_name \in BranchNames,
          recent_commits \in RecentCommits,
          http_client_built \in BOOLEAN :
        LET prepared == PrepareDiff(diff.value, override)
            fail(r) == /\ Return(r)
                       /\ staged_diff' = IF diff.ok THEN Some(diff.value) ELSE None
                       /\ UNCHANGED <<system_prompt, user_prompt, truncated_diff, truncated>>
        IN  IF ~diff.ok THEN fail("Git")
            ELSE IF DiffIsEmpty(diff.value) THEN fail("NoStagedChanges")
            ELSE IF prepared.panic THEN fail(SlicePanic)
            ELSE /\ staged_diff' = Some(diff.value)
                 /\ truncated_diff' = prepared.truncated_diff
                 /\ truncated' = prepared.truncated
                 /\ IF AIClientNew(config.value) # "ok"
                    THEN Return(AIClientNew(config.value))
                         /\ UNCHANGED <<system_prompt, user_prompt>>
                    ELSE IF ~http_client_built
                    THEN Return("Http") /\ UNCHANGED <<system_prompt, user_prompt>>
                    ELSE /\ system_prompt' = get_system_prompt(Locale, config.value.provider,
                                                               config.value.custom_prompt)
                         /\ user_prompt' = get_user_prompt(prepared.truncated_diff,
                                                           branch_name, recent_commits)
                         /\ pc' = "msg_generate"
                         /\ UNCHANGED result
    /\ UNCHANGED <<callVars, hookVars, staging, impact, msgArgs, output, cfgVars, args, staged_files,
                   current_messages, selection, genLog, commitLog, regens, prompts,
                   editorLog>>

\* lines 83-88: the messages with a line ---END--- between them
RECURSIVE EndSeparated(_)
EndSeparated(messages) ==
    IF Len(messages) <= 1 THEN messages
    ELSE <<Head(messages), <<"---END---">>>> \o EndSeparated(Tail(messages))

\* lines 74-93: what is printed
MsgPrinted(messages) ==
    IF json_output
    THEN [format |-> "json",
          json |-> [messages |-> messages, staged_files |-> staged_files,
                    truncated |-> truncated, ignored_files |-> <<>>],
          lines |-> <<>>]
    ELSE IF ~quiet
    THEN [format |-> "plain", json |-> NoOutput.json, lines |-> EndSeparated(messages)]
    ELSE [format |-> "quiet", json |-> NoOutput.json, lines |-> messages]

\* lines 62-95: the generation call and the output of its messages
MsgGenerate ==
    /\ pc = "msg_generate"
    /\ \E reply \in ApiReplies :
        /\ genLog' = Append(genLog, [request |-> InitialRequest, reply |-> reply.kind])
        /\ IF InitialMessages(reply).ok
           THEN /\ current_messages' = InitialMessages(reply).value
                /\ output' = MsgPrinted(InitialMessages(reply).value)
                /\ Return("Ok")
           ELSE /\ Return(InitialMessages(reply).err)
                /\ UNCHANGED <<current_messages, output>>
    /\ UNCHANGED <<callVars, hookVars, staging, impact, msgArgs, diffVars, cfgVars, args, staged_files,
                   system_prompt, user_prompt, selection, commitLog, regens, prompts,
                   editorLog>>

NextMsg ==
    \/ MsgStageFiles
    \/ MsgLoadConfig
    \/ MsgBuildPrompts
    \/ MsgGenerate

----------------------------------------------------------------------------
(* The two subcommands that prepare a diff for the model *)

InitCommands == Init \/ InitMsg

NextCommands == Next \/ NextMsg

SpecCommands == InitCommands /\ [][NextCommands]_vars

\* the user prompt was built from the prepared diff
PromptBuilt == user_prompt # <<>>

\* the user prompt is the one that the text of truncated_diff gives when it
\* is a whole diff (with the agent context after it, if any): nothing in it
\* tells that text was cut
PromptOfWholeDiff ==
    \E b \in BranchNames, c \in RecentCommits :
        LET whole == get_user_prompt(truncated_diff, b, c)
        IN  /\ Len(user_prompt) >= Len(whole)
            /\ SubSeq(user_prompt, 1, Len(whole)) = whole
            /\ \/ Len(user_prompt) = Len(whole)
               \/ /\ Len(user_prompt) = Len(whole) + 2
                  /\ user_prompt[Len(whole) + 1] = "\n\n"

\* C18: the truncated flag reaches both consumers: the user prompt of the
\* commit and msg commands tells that the diff was cut exactly when it was,
\* and the truncated field of the JSON output of msg is the flag.
C18_TruncationReflected ==
    /\ PromptBuilt => (truncated <=> ~PromptOfWholeDiff)
    /\ output.format = "json" => output.json.truncated = truncated

----------------------------------------------------------------------------
(* Configuration resolution: the merged locale *)

\* no layer sets a locale other than the default code
NoLayerSetsLocale ==
    /\ globalFile.json.locale \in {Absent, "en"}
    /\ localFile.json.locale \in {Absent, "en"}
    /\ env["GIT_AI_LOCALE"] \in {None, Some("en")}

\* C21: the locale of the merged configuration is never empty, and it is
\* the default code "en" when no layer sets a non-default locale, also when
\* a file that exists omits the locale field.
C21_LocaleNeverEmpty ==
    config.ok =>
        /\ Merged.locale # ""
        /\ NoLayerSetsLocale => Merged.locale = "en"

----------------------------------------------------------------------------
(* commands/report.rs: the system prompt of run *)

\* get_release_notes_system_prompt
get_release_notes_system_prompt(locale) ==
    IF locale = "zh" THEN "release_notes_prompt_zh" ELSE "release_notes_prompt_en"

\* get_report_system_prompt
get_report_system_prompt(locale) ==
    IF locale = "zh" THEN "report_prompt_zh" ELSE "report_prompt_en"

\* lines 61-65: let system_prompt = if range_mode { ... } else { ... }
report_system_prompt(cfg, range_mode) ==
    IF range_mode THEN get_release_notes_system_prompt(cfg.locale)
    ELSE get_report_system_prompt(cfg.locale)

----------------------------------------------------------------------------
(* The system prompts on their own *)

PromptLocales == {"zh", "en", "ja", "", "ZH", "zh-CN"}
PromptProviders == {"deepseek", "openai", "ollama", "DeepSeek", ""}
PromptOverrides == {None, Some(""), Some("Write haiku.")}

InitPrompt ==
    /\ RunIdle
    /\ callee \in {"get_system_prompt", "report::run"}
    /\ \E locale \in PromptLocales, provider \in PromptProviders,
          custom_prompt \in PromptOverrides, range_mode \in BOOLEAN :
          /\ callee = "get_system_prompt" => range_mode = FALSE
          /\ callArg = [locale |-> locale, provider |-> provider,
                        custom_prompt |-> custom_prompt, range_mode |-> range_mode]
    /\ callRet = <<>>
    /\ callCount = 0

\* the system prompt of commit-message generation
CallGetSystemPrompt ==
    /\ callee = "get_system_prompt"
    /\ callCount = 0
    /\ callRet' = <<get_system_prompt(callArg.locale, callArg.provider,
                                      callArg.custom_prompt)>>
    /\ callCount' = 1
    /\ UNCHANGED <<callee, callArg, msgArgs, output, diffVars, cfgVars, runVars>>

\* the system prompt that report::run sends, from the merged configuration
CallReportSystemPrompt ==
    /\ callee = "report::run"
    /\ callCount = 0
    /\ callRet' = <<report_system_prompt(callArg, callArg.range_mode)>>
    /\ callCount' = 1
    /\ UNCHANGED <<callee, callArg, msgArgs, output, diffVars, cfgVars, runVars>>

NextPrompt == CallGetSystemPrompt \/ CallReportSystemPrompt

SpecPrompt == InitPrompt /\ [][NextPrompt]_vars

\* C22: a configured custom system prompt is the commit-message system
\* prompt verbatim for every locale and provider; without one the prompt is
\* the Chinese template for locale "zh" and the English one for every other
\* locale, in the deepseek variant exactly when the provider is "deepseek".
C22_SystemPrompt ==
    (callee = "get_system_prompt" /\ callCount = 1) =>
        LET a == callArg
            p == callRet[1]
        IN  /\ a.custom_prompt # None => p = a.custom_prompt[1]
            /\ a.custom_prompt = None =>
                /\ p \in {"chinese_prompt_deepseek", "chinese_prompt",
                          "english_prompt_deepseek", "english_prompt"}
                /\ p \in {"chinese_prompt_deepseek", "chinese_prompt"}
                       <=> a.locale = "zh"
                /\ p \in {"chinese_prompt_deepseek", "english_prompt_deepseek"}
                       <=> a.provider = "deepseek"

\* an override for locale "zh" and provider "deepseek" is returned as it is
C22_Witness ==
    /\ callee = "get_system_prompt" /\ callCount = 1
    /\ callArg.locale = "zh" /\ callArg.provider = "deepseek"
    /\ callArg.custom_prompt = Some("Write haiku.")
    /\ callRet = <<"Write haiku.">>

\* C23: the report and release-note commands follow the same rule: with a
\* configured custom system prompt the system prompt they send is the
\* override verbatim, and only otherwise the template of the locale.
C23_ReportPrompt ==
    (callee = "report::run" /\ callCount = 1) =>
        LET a == callArg
            p == callRet[1]
            zh == IF a.range_mode THEN "release_notes_prompt_zh" ELSE "report_prompt_zh"
            en == IF a.range_mode THEN "release_notes_prompt_en" ELSE "report_prompt_en"
        IN  /\ a.custom_prompt # None => p = a.custom_prompt[1]
            /\ a.custom_prompt = None => p = (IF a.locale = "zh" THEN zh ELSE en)

----------------------------------------------------------------------------
(* The enrichment collaborators of the commit command *)

\* the candidate set is the one of the first generation call
CandidatesOfGeneration ==
    /\ Len(genLog) = 1
    /\ genLog[1].reply = "ok"
    /\ genLog[1].request = InitialRequest

----------------------------------------------------------------------------
(* No generation without staged changes *)

\* neither the client nor a prompt nor a request exists
NothingSent == genLog = <<>> /\ user_prompt = <<>> /\ system_prompt = ""

\* C25: no generation request is issued without staged changes.  The commit
\* and msg commands fail with NoStagedChanges, before the client is
\* constructed and before any request, whenever the staged diff is empty or
\* the staged file list is empty (in commit: when there is nothing unstaged
\* to offer, or the offer left the staged list empty); selecting no file in
\* the offer ends the run with UserCancelled.
C25_NoGenerationWithoutStaged ==
    /\ (genLog # <<>> \/ user_prompt # <<>>) =>
          /\ staged_files # <<>>
          /\ staged_diff # None /\ staged_diff # Some(<<>>)
    /\ staged_diff = Some(<<>>) => result = "NoStagedChanges" /\ NothingSent
    /\ staging # NoStaging =>
          /\ pc = "done" /\ NothingSent
          /\ (command = "msg" /\ staging.staged_files = Some(<<>>))
                => result = "NoStagedChanges"
          /\ (command = "commit" /\ staging.staged_files = Some(<<>>)
              /\ (staging.unstaged_files = Some(<<>>) \/ staging.restaged = Some(<<>>)))
                => result = "NoStagedChanges"
          /\ staging.selections = Some(<<>>) => result = "UserCancelled"
          /\ result = "NoStagedChanges" => staging.staged_files = Some(<<>>)

\* the offer was taken and the staged list is still empty
C25_Witness ==
    /\ command = "commit" /\ pc = "done" /\ result = "NoStagedChanges"
    /\ staging.staged_files = Some(<<>>)
    /\ staging.selections = Some(<<1>>)
    /\ staging.restaged = Some(<<>>)
    /\ NothingSent

----------------------------------------------------------------------------
(* types.rs: the spellings of the fields of AIConfig in a file *)

\* #[serde(default, alias = "...")]: the keys under which a field is read
FieldSpellingsCanonical(field) == {field}
FieldSpellings(field) ==
    CASE field = "api_key" -> {"api_key", "apiKey"}
      [] field = "base_url" -> {"base_url", "baseUrl"}
      [] field = "agent_model" -> {"agent_model", "agentModel"}
      [] field = "custom_prompt" -> {"custom_prompt", "customPrompt"}
      [] field = "enable_footer" -> {"enable_footer", "enableFooter"}
      [] OTHER -> {field}

AIConfigFields ==
    {"provider", "api_key", "base_url", "model", "agent_model", "locale",
     "custom_prompt", "enable_footer"}

\* the keys a configuration file of the model may hold; "note" is no field
ObjectKeys ==
    AIConfigFields \cup {"apiKey", "baseUrl", "agentModel", "customPrompt", "enableFooter",
                         "note"}

\* the keys of an object under which a field is written
WrittenAs(object, field) == {k \in FieldSpellings(field) : object[k] # Absent}

\* the value serde hands to a field: that of its one key, or the key is absent
FieldValue(object, field) ==
    IF WrittenAs(object, field) = {} THEN Absent
    ELSE object[CHOOSE k \in WrittenAs(object, field) : TRUE]

\* serde_json::from_str::<AIConfig>: a field written under two of its keys is
\* a duplicate field, an error; a key that names no field is skipped
from_str(object) ==
    IF \E f \in AIConfigFields : Cardinality(WrittenAs(object, f)) > 1
    THEN Err("Json")
    ELSE Ok(ParseAIConfig([provider      |-> FieldValue(object, "provider"),
                           api_key       |-> FieldValue(object, "api_key"),
                           base_url      |-> FieldValue(object, "base_url"),
                           model         |-> FieldValue(object, "model"),
                           agent_model   |-> FieldValue(object, "agent_model"),
                           locale        |-> FieldValue(object, "locale"),
                           custom_prompt |-> FieldValue(object, "custom_prompt"),
                           enable_footer |-> FieldValue(object, "enable_footer")]))

----------------------------------------------------------------------------
(* The parse of a configuration file on its own *)

LegacyKeyOf(field) ==
    CASE field = "api_key" -> "apiKey"
      [] field = "base_url" -> "baseUrl"
      [] field = "agent_model" -> "agentModel"
      [] field = "custom_prompt" -> "customPrompt"
      [] field = "enable_footer" -> "enableFooter"
      [] OTHER -> field

AliasedFields == {"api_key", "base_url", "agent_model", "custom_prompt", "enable_footer"}

\* the value a file gives to a field, whatever the spelling
WrittenValue(field) ==
    CASE field = "provider" -> "deepseek"
      [] field = "api_key" -> "legacy-key"
      [] field = "base_url" -> "https://api.deepseek.com/v1"
      [] field = "model" -> "deepseek-chat"
      [] field = "agent_model" -> "deepseek-chat"
      [] field = "locale" -> "zh"
      [] field = "custom_prompt" -> "legacy"
      [] field = "enable_footer" -> "true"
      [] OTHER -> "text"

\* the value a file gives to a field; the footer switch is true or false
ValueOf(field, footer) == IF field = "enable_footer" THEN footer ELSE WrittenValue(field)

\* the object that writes the keys of `canonical` as they are and the fields
\* of `legacy` under their legacy keys
ObjectOf(canonical, legacy, footer) ==
    [k \in ObjectKeys |->
        IF k \in canonical THEN ValueOf(k, footer)
        ELSE IF \E f \in legacy : LegacyKeyOf(f) = k
        THEN ValueOf(CHOOSE f \in legacy : LegacyKeyOf(f) = k, footer)
        ELSE Absent]

ParseObjects ==
    {ObjectOf({"provider", "model"} \cup canonical, legacy, footer) :
        canonical \in SUBSET (AliasedFields \cup {"locale", "note"}),
        legacy \in SUBSET AliasedFields,
        footer \in {"true", "false"}}

InitParse ==
    /\ RunIdle
    /\ callee = "serde_json::from_str"
    /\ callArg \in ParseObjects
    /\ callRet = <<>>
    /\ callCount = 0

\* serde_json::from_str(&content) of read_global_config and read_local_config
CallFromStr ==
    /\ callee = "serde_json::from_str"
    /\ callCount = 0
    /\ callRet' = <<from_str(callArg)>>
    /\ callCount' = 1
    /\ UNCHANGED <<callee, callArg, cfgVars, runVars>>

SpecParse == InitParse /\ [][CallFromStr]_vars

\* the object with every legacy key renamed to the canonical key
CanonicalTwin(object) ==
    [k \in ObjectKeys |->
        IF k \in AliasedFields THEN object[LegacyKeyOf(k)]
        ELSE IF k \in AIConfigFields \/ k = "note" THEN object[k]
        ELSE Absent]

\* the aliased fields are written under their legacy keys only
LegacyOnly(object) == \A f \in AliasedFields : object[f] = Absent

\* C26: a file that uses the legacy camelCase spellings apiKey, baseUrl,
\* agentModel, customPrompt, enableFooter parses to the same record, field by
\* field, as the file with the canonical spellings and the same values.
C26_LegacySpellings ==
    (callee = "serde_json::from_str" /\ callCount = 1 /\ LegacyOnly(callArg)) =>
        LET legacy == callRet[1]
            twin == from_str(CanonicalTwin(callArg))
        IN  /\ legacy.ok /\ twin.ok
            /\ \A f \in AIConfigFields : legacy.value[f] = twin.value[f]
            /\ legacy.value.api_key = SerdeString(callArg["apiKey"])
            /\ legacy.value.base_url = SerdeString(callArg["baseUrl"])
            /\ legacy.value.agent_model = SerdeOption(callArg["agentModel"])
            /\ legacy.value.custom_prompt = SerdeOption(callArg["customPrompt"])
            /\ legacy.value.enable_footer = SerdeOptionBool(callArg["enableFooter"])

\* the file of the test parse_legacy_camel_case_config_fields
C26_Witness ==
    /\ callee = "serde_json::from_str" /\ callCount = 1
    /\ callArg = ObjectOf({"provider", "model", "locale"}, AliasedFields, "true")
    /\ callRet[1].ok
    /\ callRet[1].value =
         [provider |-> "deepseek", api_key |-> "legacy-key",
          base_url |-> "https://api.deepseek.com/v1", model |-> "deepseek-chat",
          agent_model |-> Some("deepseek-chat"), locale |-> "zh",
          custom_prompt |-> Some("legacy"), enable_footer |-> Some(TRUE)]

----------------------------------------------------------------------------
(* utils/copilot.rs: CopilotCLI::parse_analysis *)

\* str::starts_with
StartsWith(line, prefix) ==
    Len(line) >= Len(prefix) /\ SubSeq(line, 1, Len(prefix)) = prefix

\* str::trim_start_matches: the prefix is removed as often as it is there
RECURSIVE trim_start_matches(_, _)
trim_start_matches(line, prefix) ==
    IF StartsWith(line, prefix)
    THEN trim_start_matches(SubSeq(line, Len(prefix) + 1, Len(line)), prefix)
    ELSE line

\* the section markers, each one symbol of a line
SectionMarkers == {"IMPACT:", "RISKS:", "AFFECTED:", "TESTS:"}

\* lines 104-116: the section a trimmed line opens, or "" when it opens none
MarkerOf(line) ==
    IF StartsWith(line, <<"IMPACT:">>) THEN "impact"
    ELSE IF StartsWith(line, <<"RISKS:">>) THEN "risks"
    ELSE IF StartsWith(line, <<"AFFECTED:">>) THEN "affected"
    ELSE IF StartsWith(line, <<"TESTS:">>) THEN "tests"
    ELSE ""

\* line 117: line.starts_with("- ") || line.starts_with("* ")
IsBulletLine(line) ==
    /\ MarkerOf(line) = ""
    /\ StartsWith(line, <<"-", " ">>) \/ StartsWith(line, <<"*", " ">>)

\* lines 118-122: the item of a bullet line
ItemOf(line) ==
    Trim(trim_start_matches(trim_start_matches(line, <<"-", " ">>), <<"*", " ">>))

\* lines 104-116: current_section after a trimmed line
SectionAfterKeepingOnImpact(current_section, line) ==
    IF MarkerOf(line) \in {"", "impact"} THEN current_section ELSE MarkerOf(line)
SectionAfter(current_section, line) ==
    IF MarkerOf(line) = "" THEN current_section ELSE MarkerOf(line)

\* what the loop of lines 94-132 holds before any line
ParseStart ==
    [current_section |-> "", impact_summary |-> <<>>, potential_issues |-> <<>>,
     affected_areas |-> <<>>, test_recommendations |-> <<>>]

\* lines 101-131: one iteration of the loop
ParseLine(st, raw) ==
    LET line == Trim(raw)
        item == ItemOf(line)
        push(section, list) ==
            IF IsBulletLine(line) /\ item # <<>> /\ st.current_section = section
            THEN Append(list, item) ELSE list
    IN  [current_section |-> SectionAfter(st.current_section, line),
         impact_summary |-> IF MarkerOf(line) = "impact"
                            THEN Trim(SubSeq(line, 2, Len(line)))
                            ELSE st.impact_summary,
         potential_issues |-> push("risks", st.potential_issues),
         affected_areas |-> push("affected", st.affected_areas),
         test_recommendations |-> push("tests", st.test_recommendations)]

RECURSIVE ParseLines(_, _)
ParseLines(st, lines) ==
    IF lines = <<>> THEN st ELSE ParseLines(ParseLine(st, Head(lines)), Tail(lines))

\* lines 135-137: text.lines().take(3).collect::<Vec<_>>().join(" ")
RECURSIVE JoinWithSpace(_)
JoinWithSpace(lines) ==
    IF lines = <<>> THEN <<>>
    ELSE IF Len(lines) = 1 THEN Head(lines)
    ELSE Head(lines) \o <<" ">> \o JoinWithSpace(Tail(lines))

FirstThree(lines) == SubSeq(lines, 1, IF Len(lines) < 3 THEN Len(lines) ELSE 3)

\* parse_analysis(text): Result<CodeAnalysis>, of the lines of the text
parse_analysis(lines) ==
    LET st == ParseLines(ParseStart, lines)
    IN  [ok |-> TRUE,
         impact_summary |-> IF st.impact_summary = <<>>
                            THEN JoinWithSpace(FirstThree(lines))
                            ELSE st.impact_summary,
         potential_issues |-> st.potential_issues,
         affected_areas |-> st.affected_areas,
         test_recommendations |-> st.test_recommendations]

----------------------------------------------------------------------------
(* The parse of the impact analysis on its own *)

\* lines of a response: markers with and without text, bullets of both
\* prefixes, with blanks around and with a repeated prefix, and other lines
AnalysisLines ==
    { <<"IMPACT:", " ", "x", " ">>,
      <<"IMPACT:">>,
      <<"RISKS:">>,
      <<" ", "AFFECTED:", " ", "y">>,
      <<"TESTS:">>,
      <<"-", " ", "x">>,
      <<" ", "*", " ", "y", " ">>,
      <<"-", " ", "*", " ", "-", " ", "x">>,
      <<"-", "x">>,
      <<"y">> }

AnalysisTexts == UNION {[1..n -> AnalysisLines] : n \in 0..MaxLines}

InitAnalysis ==
    /\ RunIdle
    /\ callee = "parse_analysis"
    /\ callArg \in AnalysisTexts
    /\ callRet = <<>>
    /\ callCount = 0

\* Self::parse_analysis(&analysis_text)
CallParseAnalysis ==
    /\ callee = "parse_analysis"
    /\ callCount = 0
    /\ callRet' = <<parse_analysis(callArg)>>
    /\ callCount' = 1
    /\ UNCHANGED <<callee, callArg, cfgVars, runVars>>

SpecAnalysis == InitAnalysis /\ [][CallParseAnalysis]_vars

\* the line without the blanks around it
Trimmed(lines, i) == Trim(lines[i])

\* a line that starts with one of the four markers
IsMarkerLine(lines, i) == \E m \in SectionMarkers : StartsWith(Trimmed(lines, i), <<m>>)

\* a line that starts with "- " or "* "
IsBullet(lines, i) ==
    \/ StartsWith(Trimmed(lines, i), <<"-", " ">>)
    \/ StartsWith(Trimmed(lines, i), <<"*", " ">>)

\* the marker of the most recent marker line before line i, or "" if none
MarkerBefore(lines, i) ==
    LET before == {j \in 1..(i - 1) : IsMarkerLine(lines, j)}
    IN  IF before = {} THEN ""
        ELSE Trimmed(lines, CHOOSE j \in before : \A k \in before : k <= j)[1]

\* the bullet lines that belong to a marker, and the one at rank k among them
BulletsOf(lines, marker) ==
    {i \in 1..Len(lines) : IsBullet(lines, i) /\ MarkerBefore(lines, i) = marker}
BulletAt(lines, marker, k) ==
    CHOOSE i \in BulletsOf(lines, marker) :
        Cardinality({j \in BulletsOf(lines, marker) : j < i}) = k - 1

\* a list holds the bullets of its marker, one item for each, in their order
ListHolds(list, lines, marker) ==
    /\ Len(list) = Cardinality(BulletsOf(lines, marker))
    /\ \A k \in 1..Len(list) : list[k] = ItemOf(Trimmed(lines, BulletAt(lines, marker, k)))

\* the trimmed text after IMPACT: of the most recent such line, or <<>>
TextAfterImpact(lines) ==
    LET impacts == {i \in 1..Len(lines) : StartsWith(Trimmed(lines, i), <<"IMPACT:">>)}
        last == CHOOSE i \in impacts : \A k \in impacts : k <= i
    IN  IF impacts = {} THEN <<>>
        ELSE Trim(SubSeq(Trimmed(lines, last), 2, Len(Trimmed(lines, last))))

\* C27: the parse of the impact analyzer's response gives each bullet line
\* (prefix "- " or "* ") to the list of the most recent marker before it,
\* RISKS: to the potential issues, AFFECTED: to the affected areas, TESTS: to
\* the test recommendations, in order of appearance; bullets before any
\* marker or after IMPACT: go to no list; the summary is the trimmed text
\* after IMPACT:, or the first three lines joined by spaces when that is
\* empty; the parse never fails.
C27_ParseAnalysis ==
    (callee = "parse_analysis" /\ callCount = 1) =>
        LET lines == callArg
            parsed == callRet[1]
        IN  /\ parsed.ok
            /\ ListHolds(parsed.potential_issues, lines, "RISKS:")
            /\ ListHolds(parsed.affected_areas, lines, "AFFECTED:")
            /\ ListHolds(parsed.test_recommendations, lines, "TESTS:")
            /\ Len(parsed.potential_issues) + Len(parsed.affected_areas)
                 + Len(parsed.test_recommendations)
                 = Cardinality({i \in 1..Len(lines) :
                                   IsBullet(lines, i)
                                   /\ MarkerBefore(lines, i) \notin {"", "IMPACT:"}})
            /\ parsed.impact_summary =
                 IF TextAfterImpact(lines) # <<>> THEN TextAfterImpact(lines)
                 ELSE JoinWithSpace(FirstThree(lines))

\* a summary, a risk, and after a second IMPACT: line a bullet that is dropped
C27_Witness ==
    /\ callee = "parse_analysis" /\ callCount = 1
    /\ callArg = << <<"RISKS:">>, <<"-", " ", "x">>, <<"IMPACT:", " ", "x", " ">>,
                    <<" ", "*", " ", "y", " ">> >>
    /\ callRet[1].potential_issues = << <<"x">> >>
    /\ callRet[1].affected_areas = <<>>
    /\ callRet[1].test_recommendations = <<>>
    /\ callRet[1].impact_summary = <<"x">>

----------------------------------------------------------------------------
(* Secret redaction: the order of the rules *)

\* how many times p occurs in t
Occurrences(t, p) == Cardinality({k \in 1..Len(t) : LiteralAt(t, k, p)})

\* the text after the provider-key rule and the bearer rule
AfterSpecificRules(input) == ReplaceBearer(ReplaceSk(input, 1), 1)

\* the generic rule left every "sk-****..." where the first two rules put it
SkReplacementsKept ==
    Occurrences(callRet, SkReplacement)
        = Occurrences(AfterSpecificRules(callArg), SkReplacement)

\* the generic rule left every "Bearer ****..." where they put it
BearerReplacementsKept ==
    Occurrences(callRet, BearerReplacement)
        = Occurrences(AfterSpecificRules(callArg), BearerReplacement)

\* C28: the generic long-token rule never alters text that an earlier rule
\* produced: in the output every replacement of the provider-key rule is the
\* literal "sk-****..." and every replacement of the bearer rule is the
\* literal "Bearer ****...", whatever stands before or after the secret.
C28_SpecificReplacementsKept ==
    (callee = "redact_secrets" /\ callCount = 1) =>
        SkReplacementsKept /\ BearerReplacementsKept

----------------------------------------------------------------------------
(* commands/hook.rs: run_install and run_remove *)

\* generate_hook_script_bash or generate_hook_script_windows
hook_script == "script of git-ai-cli"

\* hooks that were there before: with and without the text git-ai in them
ForeignHooks == {"lint hook", "format hook", "hook that calls git-ai"}

\* existing.contains("git-ai")
ContainsGitAi(content) == content \in {hook_script, "hook that calls git-ai"}

\* the steps of run_install and run_remove that may fail
InstallSteps == {"hook_path", "create_dir_all", "read_to_string", "copy", "write",
                 "set_permissions"}
RemoveSteps == {"hook_path", "copy", "remove_backup", "remove_hook"}

\* one entry of the log: the two files before the run, and how it ended
HookRun(action, ended) ==
    [action |-> action, hook_file |-> hook_file, backup_file |-> backup_file,
     result |-> ended]

\* lines 46-49: the existing hook is copied to the backup path
Backup(existing) == existing

\* run_install, with the step that fails, if any
HookInstall ==
    /\ Len(hookLog) < MaxHookRuns
    /\ \E failing \in InstallSteps \cup {"none"} :
        LET fails(step) == failing = step
            end(r, hook, backup) ==
                /\ hook_file' = hook
                /\ backup_file' = backup
                /\ hookLog' = Append(hookLog, HookRun("install", r))
        IN  IF fails("hook_path") THEN end("Git", hook_file, backup_file)
            ELSE IF fails("create_dir_all") THEN end("Other", hook_file, backup_file)
            ELSE IF is_some(hook_file) /\ fails("read_to_string")
            THEN end("Other", hook_file, backup_file)
            ELSE IF is_some(hook_file) /\ ContainsGitAi(unwrap(hook_file))
            THEN end("Ok", hook_file, backup_file)
            ELSE IF is_some(hook_file) /\ fails("copy")
            THEN end("Other", hook_file, backup_file)
            ELSE LET saved == IF is_some(hook_file) THEN Backup(hook_file)
                              ELSE backup_file
                 IN  IF fails("write") THEN end("Other", hook_file, saved)
                     ELSE IF fails("set_permissions")
                     THEN end("Other", Some(hook_script), saved)
                     ELSE end("Ok", Some(hook_script), saved)
    /\ UNCHANGED <<callVars, cfgVars, args, staged_files, pc, system_prompt, user_prompt,
                   current_messages, selection, result, genLog, commitLog, regens,
                   prompts, editorLog, msgArgs, diffVars, output, impact, staging>>

\* run_remove, with the step that fails, if any
HookRemove ==
    /\ Len(hookLog) < MaxHookRuns
    /\ \E failing \in RemoveSteps \cup {"none"} :
        LET fails(step) == failing = step
            end(r, hook, backup) ==
                /\ hook_file' = hook
                /\ backup_file' = backup
                /\ hookLog' = Append(hookLog, HookRun("remove", r))
        IN  IF fails("hook_path") THEN end("Git", hook_file, backup_file)
            ELSE IF ~is_some(hook_file) THEN end("Ok", hook_file, backup_file)
            ELSE IF is_some(backup_file)
            THEN IF fails("copy") THEN end("Other", hook_file, backup_file)
                 ELSE IF fails("remove_backup") THEN end("Other", backup_file, backup_file)
                 ELSE end("Ok", backup_file, None)
            ELSE IF fails("remove_hook") THEN end("Other", hook_file, backup_file)
                 ELSE end("Ok", None, None)
    /\ UNCHANGED <<callVars, cfgVars, args, staged_files, pc, system_prompt, user_prompt,
                   current_messages, selection, result, genLog, commitLog, regens,
                   prompts, editorLog, msgArgs, diffVars, output, impact, staging>>

\* the hook location as the command finds it: a hook or none, a backup or none
InitHook ==
    /\ globalFile = MissingFile /\ localFile = MissingFile /\ env = EmptyEnv
    /\ config = Unread
    /\ yes = FALSE /\ num = 1 /\ locale_override = None /\ agent = FALSE
    /\ copilot = FALSE /\ impact = "none"
    /\ staged_files = <<>>
    /\ pc = "start"
    /\ system_prompt = ""
    /\ user_prompt = <<>>
    /\ current_messages = <<>>
    /\ selection = "none"
    /\ result = "none"
    /\ genLog = <<>> /\ commitLog = <<>> /\ editorLog = <<>>
    /\ regens = 0 /\ prompts = 0
    /\ CommitCommand
    /\ NoDiff
    /\ staging = NoStaging
    /\ NoCall
    /\ hook_file \in {None} \cup {Some(c) : c \in ForeignHooks \cup {hook_script}}
    /\ backup_file \in {None} \cup {Some(c) : c \in ForeignHooks}
    /\ hookLog = <<>>

NextHook == HookInstall \/ HookRemove

SpecHook == InitHook /\ [][NextHook]_vars

\* the two files after the run of entry k of the log
FilesAfter(k) ==
    IF k = Len(hookLog)
    THEN [hook_file |-> hook_file, backup_file |-> backup_file]
    ELSE [hook_file |-> hookLog[k + 1].hook_file,
          backup_file |-> hookLog[k + 1].backup_file]

\* entry k is an install and entry k + 1 a remove, and both ended well
InstallThenRemove(k) ==
    /\ k + 1 <= Len(hookLog)
    /\ hookLog[k].action = "install" /\ hookLog[k].result = "Ok"
    /\ hookLog[k + 1].action = "remove" /\ hookLog[k + 1].result = "Ok"

\* C29: hook install followed by hook remove restores the hook location.
\* A hook file without the marker git-ai that was there before is there
\* again with its content, and no backup remains; where no hook file was,
\* none is afterwards.  An install on a hook file that contains git-ai
\* changes neither that file nor a backup.
C29_InstallRemoveRestores ==
    \A k \in 1..Len(hookLog) :
        LET before == hookLog[k]
        IN  /\ InstallThenRemove(k) =>
                /\ (is_some(before.hook_file) /\ ~ContainsGitAi(unwrap(before.hook_file)))
                      => /\ FilesAfter(k + 1).hook_file = before.hook_file
                         /\ FilesAfter(k + 1).backup_file = None
                /\ ~is_some(before.hook_file)
                      => FilesAfter(k + 1).hook_file = None
            /\ (before.action = "install" /\ is_some(before.hook_file)
                /\ ContainsGitAi(unwrap(before.hook_file)))
                  => /\ FilesAfter(k).hook_file = before.hook_file
                     /\ FilesAfter(k).backup_file = before.backup_file

----------------------------------------------------------------------------
(* types.rs: get_provider_presets, and commands/config.rs: run_wizard *)

ProviderPreset(base_url, default_model, requires_key) ==
    [base_url |-> base_url, default_model |-> default_model,
     requires_key |-> requires_key]

PresetNames ==
    {"deepseek", "qwen", "zhipu", "moonshot", "openai", "siliconflow", "ollama",
     "lm-studio"}

\* get_provider_presets
get_provider_presets_all_keyed ==
    [name \in PresetNames |-> ProviderPreset("https://api", "model", TRUE)]
get_provider_presets ==
    [name \in PresetNames |->
        CASE name = "deepseek" ->
                ProviderPreset("https://api.deepseek.com/v1", "deepseek-chat", TRUE)
          [] name = "qwen" ->
                ProviderPreset("https://dashscope.aliyuncs.com/compatible-mode/v1",
                               "qwen-plus", TRUE)
          [] name = "zhipu" ->
                ProviderPreset("https://open.bigmodel.cn/api/paas/v4", "glm-4", TRUE)
          [] name = "moonshot" ->
                ProviderPreset("https://api.moonshot.cn/v1", "moonshot-v1-8k", TRUE)
          [] name = "openai" ->
                ProviderPreset("https://api.openai.com/v1", "gpt-4-turbo", TRUE)
          [] name = "siliconflow" ->
                ProviderPreset("https://api.siliconflow.cn/v1",
                               "deepseek-ai/deepseek-v2.5", TRUE)
          [] name = "ollama" ->
                ProviderPreset("http://localhost:11434/v1", "llama2", FALSE)
          [] name = "lm-studio" ->
                ProviderPreset("http://localhost:1234/v1", "local-model", FALSE)]

\* run_wizard, lines 74-150: the configuration that is saved, from the
\* answers to the prompts
wizard_config(answers) ==
    LET preset == get_provider_presets[answers.provider]
    IN  [provider |-> answers.provider,
         api_key |-> IF preset.requires_key THEN answers.api_key
                     ELSE AIConfigDefault.api_key,
         base_url |-> preset.base_url,
         model |-> IF answers.model = "" THEN preset.default_model ELSE answers.model,
         agent_model |-> AIConfigDefault.agent_model,
         locale |-> IF answers.locale_idx = 0 THEN "en" ELSE "zh",
         custom_prompt |-> IF answers.use_custom THEN Some(answers.custom_prompt)
                           ELSE AIConfigDefault.custom_prompt,
         enable_footer |-> Some(answers.enable_footer)]

----------------------------------------------------------------------------
(* The configuration wizard on its own *)

\* the answers to the prompts; Input asks again for an empty API key or
\* prompt, and an empty model name stands for the default
WizardAnswers ==
    [provider : PresetNames, api_key : {" ", "sk-key"}, model : {"", "my-model"},
     locale_idx : {0, 1}, use_custom : BOOLEAN, custom_prompt : {"Write haiku."},
     enable_footer : BOOLEAN]

InitWizard ==
    /\ RunIdle
    /\ callee = "run_wizard"
    /\ callArg \in WizardAnswers
    /\ callRet = <<>>
    /\ callCount = 0

\* run_wizard up to write_local_config or write_global_config
CallWizard ==
    /\ callee = "run_wizard"
    /\ callCount = 0
    /\ callRet' = <<wizard_config(callArg)>>
    /\ callCount' = 1
    /\ UNCHANGED <<callee, callArg, cfgVars, runVars>>

SpecWizard == InitWizard /\ [][CallWizard]_vars

\* C30: the providers without a credential are the same in the presets and
\* in the client: for every preset of the wizard, AIClient::new accepts an
\* empty credential exactly when the preset has requires_key = false, so the
\* configuration the wizard saves for any preset is accepted by AIClient::new.
C30_PresetsAgreeWithClient ==
    (callee = "run_wizard" /\ callCount = 1) =>
        LET saved == callRet[1]
            preset == get_provider_presets[callArg.provider]
        IN  /\ saved.provider = callArg.provider
            /\ AIClientNew([saved EXCEPT !.api_key = ""]) = "ok" <=> ~preset.requires_key
            /\ AIClientNew(saved) = "ok"

\* the wizard saved lm-studio without a credential, and the client takes it
C30_Witness ==
    /\ callee = "run_wizard" /\ callCount = 1
    /\ callArg.provider = "lm-studio"
    /\ callRet[1].api_key = ""
    /\ callRet[1].base_url = "http://localhost:1234/v1"
    /\ AIClientNew(callRet[1]) = "ok"

====
